---- MODULE Spec2Model ----
(***************************************************************************)
(* libnativehelper: the lazily initialised cache of JNI class, field and   *)
(* method handles of JniConstants.cpp, run by several native threads.      *)
(*                                                                         *)
(* Every access to a shared location (a cache slot, the initialised flag,  *)
(* the mutex) is one step of one thread.  A thread's position is a stack   *)
(* of frames, because an accessor calls the class accessor and because the *)
(* runtime's GetFieldID can call back into an accessor on the same thread. *)
(***************************************************************************)
EXTENDS Integers, Sequences, FiniteSets, TLC

(* ------------------------------------------------------------------ *)
(* Bounds                                                              *)
(* ------------------------------------------------------------------ *)

\* Number of JNI_CreateJavaVM calls (runtime lifetimes after the first).
MaxResets == 1

\* The widths of int and of jlong, scaled down.
IntBits == 5

LongBits == 8

\* The native threads of the embedding application that use the accessors.
AppThreads == {"t1", "t2"}

\* The thread of the embedding application that creates runtime instances.
MainThread == "main"

Threads == AppThreads \cup {MainThread}

NoThread == "none"

(* ------------------------------------------------------------------ *)
(* Handles and names                                                   *)
(* ------------------------------------------------------------------ *)

\* nullptr, the initial value of every slot.
Null == [name |-> "null", ep |-> 0, ref |-> 0]

\* The cached global references to classes.
ClassSlots == {"g_file_descriptor_class", "g_reference_class", "g_string_class"}

\* The cached field and method ids.
MemberSlots == {"g_file_descriptor_descriptor_field",
                "g_file_descriptor_owner_id_field",
                "g_file_descriptor_init_method",
                "g_reference_get_method"}

Slots == ClassSlots \cup MemberSlots

\* The class accessors, each with the slot it returns.
ClassFns == {"GetReferenceClass", "GetFileDescriptorClass", "GetStringClass"}

\* The field and method accessors.
MemberFns == {"GetFileDescriptorDescriptorField", "GetFileDescriptorOwnerIdField",
              "GetFileDescriptorInitMethod", "GetReferenceGetMethod"}

AccessorFns == ClassFns \cup MemberFns

\* SlotOf with the ownerId accessor using the descriptor field's slot.
SlotOfMixedUp(fn) ==
    CASE fn = "GetReferenceClass"                -> "g_reference_class"
      [] fn = "GetFileDescriptorClass"           -> "g_file_descriptor_class"
      [] fn = "GetStringClass"                   -> "g_string_class"
      [] fn = "GetFileDescriptorDescriptorField" -> "g_file_descriptor_descriptor_field"
      [] fn = "GetFileDescriptorOwnerIdField"    -> "g_file_descriptor_descriptor_field"
      [] fn = "GetFileDescriptorInitMethod"      -> "g_file_descriptor_init_method"
      [] fn = "GetReferenceGetMethod"            -> "g_reference_get_method"

\* The slot an accessor reads and returns.
SlotOf(fn) ==
    CASE fn = "GetReferenceClass"                -> "g_reference_class"
      [] fn = "GetFileDescriptorClass"           -> "g_file_descriptor_class"
      [] fn = "GetStringClass"                   -> "g_string_class"
      [] fn = "GetFileDescriptorDescriptorField" -> "g_file_descriptor_descriptor_field"
      [] fn = "GetFileDescriptorOwnerIdField"    -> "g_file_descriptor_owner_id_field"
      [] fn = "GetFileDescriptorInitMethod"      -> "g_file_descriptor_init_method"
      [] fn = "GetReferenceGetMethod"            -> "g_reference_get_method"

\* The class accessor a field or method accessor calls for its klass.
ClassFnOf(fn) ==
    IF fn = "GetReferenceGetMethod" THEN "GetReferenceClass"
                                    ELSE "GetFileDescriptorClass"

\* The member, with its descriptor or signature, an accessor looks up.
MemberOf(fn) ==
    CASE fn = "GetFileDescriptorDescriptorField" -> "descriptor:I"
      [] fn = "GetFileDescriptorOwnerIdField"    -> "ownerId:J"
      [] fn = "GetFileDescriptorInitMethod"      -> "<init>()V"
      [] fn = "GetReferenceGetMethod"            -> "get()Ljava/lang/Object;"

\* The class that declares the member.
DeclaringClass(fn) ==
    IF fn = "GetReferenceGetMethod" THEN "java/lang/ref/Reference"
                                    ELSE "java/io/FileDescriptor"

VARIABLES
    slot,         \* the seven cached handles
    initialized,  \* g_class_refs_initialized
    mutex,        \* holder of g_class_refs_mutex, or NoThread
    stack,        \* per thread: the frames of its calls, innermost last
    epoch,        \* the current runtime lifetime, 1, 2, ...
    resetsDone,   \* completed Uninitialize calls
    globalRefs,   \* global references created by NewGlobalRef
    batches,      \* batch resolutions begun in EnsureClassReferencesInitialized
    clinit,       \* static initialisation of java.io.FileDescriptor
    aborted,      \* "no"; the symbol named by the fatal diagnostic; "crash"
    rt,           \* what the host runtime is able to do
    pending,      \* per thread: the exception pending in its JNIEnv
    g_descriptorFieldID,  \* the static of jniGetFDFromFileDescriptor_QR
    heap,         \* per java.io.FileDescriptor object: its descriptor field
    inv           \* the build, the system property and the last call of
                  \* JniInvocationGetLibraryWith

vars == <<slot, initialized, mutex, stack, epoch, resetsDone, globalRefs,
          batches, clinit, aborted, rt, pending, g_descriptorFieldID, heap, inv>>

\* No exception is pending.
NoException == "none"

\* A NULL jobject.
NullObject == "NULL"

\* The java.io.FileDescriptor objects native code holds references to.
Objects == {"fdA"}

\* The value of the descriptor field of a FileDescriptor that is not open.
ClosedFd == 0 - 1

\* Values of the descriptor field.
FdValues == {ClosedFd, 0, 5}


(* ------------------------------------------------------------------ *)
(* Frames                                                              *)
(* ------------------------------------------------------------------ *)

\* A frame: the function, the position in it, and its local handle
\* (klass, the looked-up id, or the value loaded by the null check).
Frame(fn, pc, v) == [fn |-> fn, pc |-> pc, v |-> v]

Top(t) == stack[t][Len(stack[t])]

\* Thread t's innermost frame is in one of fns, at pc.
At(t, fns, pc) ==
    /\ stack[t] # <<>>
    /\ Top(t).fn \in fns
    /\ Top(t).pc = pc

\* The stack of t with its innermost frame replaced.
WithTop(t, f) == [stack[t] EXCEPT ![Len(stack[t])] = f]

Goto(t, pc) == [stack EXCEPT ![t] = WithTop(t, [Top(t) EXCEPT !.pc = pc])]

GotoWith(t, pc, v) == [stack EXCEPT ![t] = WithTop(t, Frame(Top(t).fn, pc, v))]

Running == aborted = "no"

InUninitialize(t) == stack[t] # <<>> /\ stack[t][1].fn = "Uninitialize"

(* ------------------------------------------------------------------ *)
(* Initial state: the statics of JniConstants.cpp, no call in progress *)
(* ------------------------------------------------------------------ *)

\* What the host runtime is able to do, the same for the whole run:
\*   missing   FindClass / GetFieldID / GetMethodID may return nullptr;
\*   oom       NewGlobalRef may return nullptr;
\*   lazyInit  a runtime instance starts with java.io.FileDescriptor not
\*             yet initialised, so that the first member lookup in it runs
\*             the class's static initialisers.
Runtime(missing, oom, lazyInit) ==
    [missing |-> missing, oom |-> oom, lazyInit |-> lazyInit]

\* A conforming runtime whose core classes are initialised at start.
SoundRuntime == Runtime(FALSE, FALSE, FALSE)

\* The state of java.io.FileDescriptor's initialisation in a new runtime.
AtBoot == IF rt.lazyInit THEN "no" ELSE "done"

\* A NULL const char*.
NullString == "NULL"

\* The default runtime library.
kDefaultJniInvocationLibrary == "libart.so"

\* Names of runtime libraries, requested or set in the system property.
LibraryNames == {"libart.so", "libartd.so", "libartd2.so", "libdvm.so",
                 "libfoo.so", "libbar.so"}

\* The build (is_debuggable), the value the property getter yields, and
\* of the last call of JniInvocationGetLibraryWith, if there was one, the
\* library argument, the result and whether the getter was called.
Invocation(debuggable, property) ==
    [debuggable |-> debuggable, property |-> property, called |-> FALSE,
     library |-> NullString, result |-> NullString, propertyRead |-> FALSE]

\* FileDescriptor objects as their constructor leaves them; a
\* non-debuggable build.
InitHeap ==
    /\ heap = [o \in Objects |-> ClosedFd]
    /\ inv = Invocation(FALSE, kDefaultJniInvocationLibrary)

InitCache ==
    /\ slot = [s \in Slots |-> Null]
    /\ initialized = FALSE
    /\ mutex = NoThread
    /\ stack = [t \in Threads |-> <<>>]
    /\ epoch = 1
    /\ resetsDone = 0
    /\ globalRefs = 0
    /\ batches = 0
    /\ aborted = "no"
    /\ clinit = AtBoot
    /\ pending = [t \in Threads |-> NoException]
    /\ g_descriptorFieldID = Null

Init ==
    /\ rt = SoundRuntime
    /\ InitCache
    /\ InitHeap

(* ------------------------------------------------------------------ *)
(* Calls and returns                                                   *)
(* ------------------------------------------------------------------ *)

\* A native thread calls one of the seven accessors.
CallAccessor(t, fn) ==
    /\ Running
    /\ t \in AppThreads
    /\ stack[t] = <<>>
    /\ stack' = [stack EXCEPT ![t] =
                    <<Frame(fn, IF fn \in ClassFns THEN "fast" ELSE "check", Null)>>]
    /\ UNCHANGED <<slot, initialized, mutex, epoch, resetsDone, globalRefs,
                   batches, clinit, aborted, rt, pending, g_descriptorFieldID, heap, inv>>

\* Where a function goes on after a call it made, or the runtime made
\* from inside its lookup, has returned: to its lookup, or to GetIntField.
AfterCall(fn) ==
    CASE fn \in MemberFns -> "find"
      [] fn = "jniGetFDFromFileDescriptor" -> "get"
      [] fn = "jniGetFDFromFileDescriptor_QR" -> "getfield"
      [] fn = "jniSetFileDescriptorOfFD" -> "setfield"
      [] fn = "jniCreateFileDescriptor" -> "args"

\* The stack after t's innermost frame returns val: the value goes to the
\* caller's klass, or to the method id of a caller that evaluates a second
\* argument; the outermost frame is left holding it for the native
\* caller ("done"); a frame the runtime called from inside
\* GetFieldID/GetMethodID gives its caller nothing.
Returned(t, val) ==
    LET n == Len(stack[t])
        rest == SubSeq(stack[t], 1, n - 1)
        caller == stack[t][n - 1]
    IN  IF n = 1
        THEN /\ stack' = GotoWith(t, "done", val)
             /\ clinit' = clinit
        ELSE /\ stack' = [stack EXCEPT ![t] =
                    [rest EXCEPT ![n - 1] =
                        IF caller.pc = "call"
                        THEN [caller EXCEPT !.pc = AfterCall(caller.fn), !.v = val]
                        ELSE IF caller.pc = "call2"
                        THEN [caller EXCEPT !.pc = AfterCall(caller.fn), !.id = val]
                        ELSE [caller EXCEPT !.pc = AfterCall(caller.fn)]]]
             /\ clinit' = IF caller.pc = "clinit" /\ clinit = t THEN "done" ELSE clinit

\* The native caller has taken the result of the call.
Finish(t) ==
    /\ Running
    /\ Len(stack[t]) = 1
    /\ Top(t).pc = "done"
    /\ stack' = [stack EXCEPT ![t] = <<>>]
    /\ UNCHANGED <<slot, initialized, mutex, epoch, resetsDone, globalRefs,
                   batches, clinit, aborted, rt, pending, g_descriptorFieldID, heap, inv>>

(* ------------------------------------------------------------------ *)
(* EnsureClassReferencesInitialized, inlined in the class accessors    *)
(* ------------------------------------------------------------------ *)

\* EnsureFast without the fast check: every call goes on to the mutex.
EnsureFastAlwaysLock(t) ==
    /\ Running
    /\ At(t, ClassFns, "fast")
    /\ stack' = Goto(t, "lock")
    /\ UNCHANGED <<slot, initialized, mutex, epoch, resetsDone, globalRefs,
                   batches, clinit, aborted, rt, pending, g_descriptorFieldID, heap, inv>>

\* Line 144: the fast check, an acquire load of the flag.
EnsureFast(t) ==
    /\ Running
    /\ At(t, ClassFns, "fast")
    /\ stack' = Goto(t, IF initialized THEN "return" ELSE "lock")
    /\ UNCHANGED <<slot, initialized, mutex, epoch, resetsDone, globalRefs,
                   batches, clinit, aborted, rt, pending, g_descriptorFieldID, heap, inv>>

\* EnsureLock that does not wait for the mutex.
EnsureLockNoWait(t) ==
    /\ Running
    /\ At(t, ClassFns, "lock")
    /\ mutex' = t
    /\ stack' = Goto(t, "recheck")
    /\ UNCHANGED <<slot, initialized, epoch, resetsDone, globalRefs,
                   batches, clinit, aborted, rt, pending, g_descriptorFieldID, heap, inv>>

\* Line 149: lock_guard's constructor; blocks while another thread holds
\* the mutex (and for ever when the caller itself holds it: std::mutex is
\* not recursive).
EnsureLock(t) ==
    /\ Running
    /\ At(t, ClassFns, "lock")
    /\ mutex = NoThread
    /\ mutex' = t
    /\ stack' = Goto(t, "recheck")
    /\ UNCHANGED <<slot, initialized, epoch, resetsDone, globalRefs,
                   batches, clinit, aborted, rt, pending, g_descriptorFieldID, heap, inv>>

\* EnsureRecheck with the check under the mutex left out: every thread
\* that gets the mutex resolves the batch.
EnsureRecheckOmitted(t) ==
    /\ Running
    /\ At(t, ClassFns, "recheck")
    /\ stack' = Goto(t, "l158")
    /\ batches' = batches + 1
    /\ UNCHANGED <<slot, initialized, mutex, epoch, resetsDone, globalRefs,
                   clinit, aborted, rt, pending, g_descriptorFieldID, heap, inv>>

\* Lines 150-152: the check under the mutex; when the flag is set the
\* function returns, which releases the guard.
EnsureRecheck(t) ==
    /\ Running
    /\ At(t, ClassFns, "recheck")
    /\ IF initialized
       THEN /\ mutex' = NoThread
            /\ stack' = Goto(t, "return")
            /\ batches' = batches
       ELSE /\ mutex' = mutex
            /\ stack' = Goto(t, "l158")
            /\ batches' = batches + 1
    /\ UNCHANGED <<slot, initialized, epoch, resetsDone, globalRefs,
                   clinit, aborted, rt, pending, g_descriptorFieldID, heap, inv>>

\* BatchStep with the flag stored after the second class, before
\* g_string_class is assigned.
BatchStepFlagEarly ==
    [l158 |-> [slot |-> "g_file_descriptor_class", class |-> "java/io/FileDescriptor",
               next |-> "l159"],
     l159 |-> [slot |-> "g_reference_class", class |-> "java/lang/ref/Reference",
               next |-> "l161"],
     l160 |-> [slot |-> "g_string_class", class |-> "java/lang/String",
               next |-> "l161"]]

\* The three assignments of the batch, in source order.
BatchStep ==
    [l158 |-> [slot |-> "g_file_descriptor_class", class |-> "java/io/FileDescriptor",
               next |-> "l159"],
     l159 |-> [slot |-> "g_reference_class", class |-> "java/lang/ref/Reference",
               next |-> "l160"],
     l160 |-> [slot |-> "g_string_class", class |-> "java/lang/String",
               next |-> "l161"]]

\* What env->FindClass followed by env->NewGlobalRef can do.
FindClassOutcomes ==
    {"ok"} \cup (IF rt.missing THEN {"absent"} ELSE {})
           \cup (IF rt.oom THEN {"nogref"} ELSE {})

\* EnsureFindClass that stores nullptr for a class the runtime does not
\* find, instead of ending the process.
EnsureFindClassLenient(t) ==
    /\ Running
    /\ stack[t] # <<>>
    /\ Top(t).fn \in ClassFns
    /\ Top(t).pc \in DOMAIN BatchStep
    /\ \E outcome \in FindClassOutcomes :
         LET step == BatchStep[Top(t).pc] IN
         /\ stack' = Goto(t, step.next)
         /\ IF outcome = "ok"
            THEN /\ slot' = [slot EXCEPT ![step.slot] =
                         [name |-> step.class, ep |-> epoch, ref |-> globalRefs + 1]]
                 /\ globalRefs' = globalRefs + 1
            ELSE /\ slot' = [slot EXCEPT ![step.slot] = Null]
                 /\ globalRefs' = globalRefs
    /\ UNCHANGED <<initialized, mutex, epoch, resetsDone, batches, clinit, aborted, rt, pending, g_descriptorFieldID, heap, inv>>

\* Lines 75-79 and 158-160: FindClass(env, name) and the store of its
\* result.  A class the runtime does not find is fatal; a global reference
\* the runtime cannot create is nullptr, stored like any other result,
\* and the runtime's OutOfMemoryError is pending in the calling thread.
EnsureFindClass(t) ==
    /\ Running
    /\ stack[t] # <<>>
    /\ Top(t).fn \in ClassFns
    /\ Top(t).pc \in DOMAIN BatchStep
    /\ \E outcome \in FindClassOutcomes :
         LET step == BatchStep[Top(t).pc] IN
         IF outcome = "absent"
         THEN /\ aborted' = step.class
              /\ UNCHANGED <<slot, stack, globalRefs, pending, g_descriptorFieldID, heap, inv>>
         ELSE /\ aborted' = aborted
              /\ stack' = Goto(t, step.next)
              /\ IF outcome = "nogref"
                 THEN /\ slot' = [slot EXCEPT ![step.slot] = Null]
                      /\ globalRefs' = globalRefs
                      /\ pending' = [pending EXCEPT ![t] = "OutOfMemoryError"]
                 ELSE /\ slot' = [slot EXCEPT ![step.slot] =
                              [name |-> step.class, ep |-> epoch, ref |-> globalRefs + 1]]
                      /\ globalRefs' = globalRefs + 1
                      /\ pending' = pending
    /\ UNCHANGED <<initialized, mutex, epoch, resetsDone, batches, clinit, rt,
                   g_descriptorFieldID, heap, inv>>

\* Line 161: the release store of the flag.
EnsureStore(t) ==
    /\ Running
    /\ At(t, ClassFns, "l161")
    /\ initialized' = TRUE
    /\ stack' = Goto(t, "unlock")
    /\ UNCHANGED <<slot, mutex, epoch, resetsDone, globalRefs,
                   batches, clinit, aborted, rt, pending, g_descriptorFieldID, heap, inv>>

\* EnsureUnlock that leaves the mutex held by the caller, as an accessor
\* holding the guard through its lookup would.
EnsureUnlockHeld(t) ==
    /\ Running
    /\ At(t, ClassFns, "unlock")
    /\ stack' = Goto(t, "return")
    /\ UNCHANGED <<slot, initialized, mutex, epoch, resetsDone, globalRefs,
                   batches, clinit, aborted, rt, pending, g_descriptorFieldID, heap, inv>>

\* Line 162: lock_guard's destructor at the end of the function.
EnsureUnlock(t) ==
    /\ Running
    /\ At(t, ClassFns, "unlock")
    /\ mutex' = NoThread
    /\ stack' = Goto(t, "return")
    /\ UNCHANGED <<slot, initialized, epoch, resetsDone, globalRefs,
                   batches, clinit, aborted, rt, pending, g_descriptorFieldID, heap, inv>>

\* Lines 97, 102, 107: return g_..._class, read after Ensure returned.
ClassReturn(t) ==
    /\ Running
    /\ At(t, ClassFns, "return")
    /\ Returned(t, slot[SlotOf(Top(t).fn)])
    /\ UNCHANGED <<slot, initialized, mutex, epoch, resetsDone, globalRefs,
                   batches, aborted, rt, pending, g_descriptorFieldID, heap, inv>>


(* ------------------------------------------------------------------ *)
(* The field and method accessors                                      *)
(* ------------------------------------------------------------------ *)

\* The slot of the class a field or method accessor looks its member up in.
ClassSlotOf(fn) == SlotOf(ClassFnOf(fn))

\* MemberCheck that reads the class slot itself instead of calling the
\* class accessor.
MemberCheckNoEnsure(t) ==
    /\ Running
    /\ At(t, MemberFns, "check")
    /\ LET v == slot[SlotOf(Top(t).fn)] IN
       IF v # Null
       THEN stack' = GotoWith(t, "return", v)
       ELSE stack' = GotoWith(t, "find", slot[ClassSlotOf(Top(t).fn)])
    /\ UNCHANGED <<slot, initialized, mutex, epoch, resetsDone, globalRefs,
                   batches, clinit, aborted, rt, pending, g_descriptorFieldID, heap, inv>>

\* Lines 111, 119, 127, 135: the unguarded null check of the accessor's
\* own slot; when the slot is null the accessor calls its class accessor.
MemberCheck(t) ==
    /\ Running
    /\ At(t, MemberFns, "check")
    /\ LET v == slot[SlotOf(Top(t).fn)] IN
       IF v # Null
       THEN stack' = GotoWith(t, "return", v)
       ELSE stack' = [stack EXCEPT ![t] =
                Append(WithTop(t, Frame(Top(t).fn, "call", Null)),
                       Frame(ClassFnOf(Top(t).fn), "fast", Null))]
    /\ UNCHANGED <<slot, initialized, mutex, epoch, resetsDone, globalRefs,
                   batches, clinit, aborted, rt, pending, g_descriptorFieldID, heap, inv>>

\* The lookup is in java.io.FileDescriptor.
OfFileDescriptor(klass) == klass.name = "java/io/FileDescriptor"

\* What env->GetFieldID / env->GetMethodID can do for thread t with klass:
\*   a null jclass is dereferenced by the runtime: the process dies;
\*   a jclass of a runtime that is gone is a dangling reference: the
\*     process dies, or the lookup yields an id of that dead runtime;
\*   a lookup in java.io.FileDescriptor initialises the class first, which
\*     runs static initialisers that call jniGetFDFromFileDescriptor on
\*     this thread ("reenter"), unless the class is initialised already;
\*   a class that does not declare the member yields nullptr, and so may
\*     any lookup in a runtime with missing symbols.
LookupOutcomes(t, fn, klass) ==
    IF klass = Null THEN {"crash"}
    ELSE IF klass.ep # epoch THEN {"crash", "stale"}
    ELSE IF OfFileDescriptor(klass) /\ clinit = "no" THEN {"reenter"}
    ELSE IF klass.name # DeclaringClass(fn) THEN {"absent"}
    ELSE {"ok"} \cup (IF rt.missing THEN {"absent"} ELSE {})

\* MemberLookup that hands nullptr on for a member the runtime does not
\* find, instead of ending the process.
MemberLookupLenient(t) ==
    /\ Running
    /\ At(t, MemberFns, "find")
    /\ LET fn == Top(t).fn
           klass == Top(t).v
       IN
       /\ (klass # Null /\ klass.ep = epoch /\ OfFileDescriptor(klass))
             => clinit \in {"no", "done", t}
       /\ \E outcome \in LookupOutcomes(t, fn, klass) :
            CASE outcome = "crash" ->
                   /\ aborted' = "crash"
                   /\ UNCHANGED <<stack, clinit>>
              [] outcome = "absent" ->
                   /\ stack' = GotoWith(t, "store", Null)
                   /\ UNCHANGED <<clinit, aborted>>
              [] outcome = "reenter" ->
                   /\ clinit' = t
                   /\ stack' = [stack EXCEPT ![t] =
                         Append(WithTop(t, Frame(fn, "clinit", klass)),
                                Frame("GetFileDescriptorDescriptorField", "check", Null))]
                   /\ aborted' = aborted
              [] outcome \in {"ok", "stale"} ->
                   /\ stack' = GotoWith(t, "store",
                                  [name |-> MemberOf(fn), ep |-> klass.ep, ref |-> 0])
                   /\ UNCHANGED <<clinit, aborted>>
    /\ UNCHANGED <<slot, initialized, mutex, epoch, resetsDone, globalRefs,
                   batches, rt, pending, g_descriptorFieldID, heap, inv>>

\* Lines 81-91 with 113, 121, 129, 137: FindField / FindMethod.  A thread
\* waits in the runtime while another thread initialises the class.
MemberLookup(t) ==
    /\ Running
    /\ At(t, MemberFns, "find")
    /\ LET fn == Top(t).fn
           klass == Top(t).v
       IN
       /\ (klass # Null /\ klass.ep = epoch /\ OfFileDescriptor(klass))
             => clinit \in {"no", "done", t}
       /\ \E outcome \in LookupOutcomes(t, fn, klass) :
            CASE outcome = "crash" ->
                   /\ aborted' = "crash"
                   /\ UNCHANGED <<stack, clinit>>
              [] outcome = "absent" ->
                   /\ aborted' = MemberOf(fn)
                   /\ UNCHANGED <<stack, clinit>>
              [] outcome = "reenter" ->
                   /\ clinit' = t
                   /\ stack' = [stack EXCEPT ![t] =
                         Append(WithTop(t, Frame(fn, "clinit", klass)),
                                Frame("GetFileDescriptorDescriptorField", "check", Null))]
                   /\ aborted' = aborted
              [] outcome \in {"ok", "stale"} ->
                   /\ stack' = GotoWith(t, "store",
                                  [name |-> MemberOf(fn), ep |-> klass.ep, ref |-> 0])
                   /\ UNCHANGED <<clinit, aborted>>
    /\ UNCHANGED <<slot, initialized, mutex, epoch, resetsDone, globalRefs,
                   batches, rt, pending, g_descriptorFieldID, heap, inv>>

\* Lines 113, 121, 129, 137: the unguarded store of the id.
MemberStore(t) ==
    /\ Running
    /\ At(t, MemberFns, "store")
    /\ slot' = [slot EXCEPT ![SlotOf(Top(t).fn)] = Top(t).v]
    /\ stack' = Goto(t, "return")
    /\ UNCHANGED <<initialized, mutex, epoch, resetsDone, globalRefs,
                   batches, clinit, aborted, rt, pending, g_descriptorFieldID, heap, inv>>

\* Lines 115, 123, 131, 139: return g_...: the slot is an ordinary
\* variable read without synchronisation, so the value returned is the
\* one the function already holds or the one in memory now.
MemberReturn(t) ==
    /\ Running
    /\ At(t, MemberFns, "return")
    /\ \E val \in {Top(t).v, slot[SlotOf(Top(t).fn)]} : Returned(t, val)
    /\ UNCHANGED <<slot, initialized, mutex, epoch, resetsDone, globalRefs,
                   batches, aborted, rt, pending, g_descriptorFieldID, heap, inv>>

(* ------------------------------------------------------------------ *)
(* JniConstants::Uninitialize                                          *)
(* ------------------------------------------------------------------ *)

\* JNI_CreateJavaVM: a new runtime instance exists, and Uninitialize is
\* called before it is returned to the caller.  Only one runtime is
\* supported at a time, so creations do not overlap.
CreateJavaVM(t) ==
    /\ Running
    /\ t = MainThread
    /\ stack[t] = <<>>
    /\ epoch <= MaxResets
    /\ \A u \in Threads : ~InUninitialize(u)
    /\ epoch' = epoch + 1
    /\ clinit' = AtBoot
    /\ stack' = [stack EXCEPT ![t] = <<Frame("Uninitialize", "lock", Null)>>]
    /\ UNCHANGED <<slot, initialized, mutex, resetsDone, globalRefs,
                   batches, aborted, rt, pending, g_descriptorFieldID, heap, inv>>

\* UninitLock that does not wait for the mutex.
UninitLockNoWait(t) ==
    /\ Running
    /\ At(t, {"Uninitialize"}, "lock")
    /\ mutex' = t
    /\ stack' = Goto(t, "l174")
    /\ UNCHANGED <<slot, initialized, epoch, resetsDone, globalRefs,
                   batches, clinit, aborted, rt, pending, g_descriptorFieldID, heap, inv>>

\* Line 173: lock_guard's constructor.
UninitLock(t) ==
    /\ Running
    /\ At(t, {"Uninitialize"}, "lock")
    /\ mutex = NoThread
    /\ mutex' = t
    /\ stack' = Goto(t, "l174")
    /\ UNCHANGED <<slot, initialized, epoch, resetsDone, globalRefs,
                   batches, clinit, aborted, rt, pending, g_descriptorFieldID, heap, inv>>

\* Lines 174-180: the seven assignments of nullptr, in source order.
ClearStep ==
    [l174 |-> [slot |-> "g_file_descriptor_class",            next |-> "l175"],
     l175 |-> [slot |-> "g_file_descriptor_descriptor_field", next |-> "l176"],
     l176 |-> [slot |-> "g_file_descriptor_owner_id_field",   next |-> "l177"],
     l177 |-> [slot |-> "g_file_descriptor_init_method",      next |-> "l178"],
     l178 |-> [slot |-> "g_reference_class",                  next |-> "l179"],
     l179 |-> [slot |-> "g_reference_get_method",             next |-> "l180"],
     l180 |-> [slot |-> "g_string_class",                     next |-> "l181"]]

\* UninitClear that gives a class slot's global reference back to the
\* runtime (DeleteGlobalRef) before clearing it.
UninitClearReleasing(t) ==
    /\ Running
    /\ stack[t] # <<>>
    /\ Top(t).fn = "Uninitialize"
    /\ Top(t).pc \in DOMAIN ClearStep
    /\ LET s == ClearStep[Top(t).pc].slot IN
       /\ slot' = [slot EXCEPT ![s] = Null]
       /\ globalRefs' = IF s \in ClassSlots /\ slot[s] # Null THEN globalRefs - 1
                                                              ELSE globalRefs
    /\ stack' = Goto(t, ClearStep[Top(t).pc].next)
    /\ UNCHANGED <<initialized, mutex, epoch, resetsDone,
                   batches, clinit, aborted, rt, pending, g_descriptorFieldID, heap, inv>>

UninitClear(t) ==
    /\ Running
    /\ stack[t] # <<>>
    /\ Top(t).fn = "Uninitialize"
    /\ Top(t).pc \in DOMAIN ClearStep
    /\ slot' = [slot EXCEPT ![ClearStep[Top(t).pc].slot] = Null]
    /\ stack' = Goto(t, ClearStep[Top(t).pc].next)
    /\ UNCHANGED <<initialized, mutex, epoch, resetsDone, globalRefs,
                   batches, clinit, aborted, rt, pending, g_descriptorFieldID, heap, inv>>

\* Line 181: the release store of false.
UninitStoreFlag(t) ==
    /\ Running
    /\ At(t, {"Uninitialize"}, "l181")
    /\ initialized' = FALSE
    /\ stack' = Goto(t, "unlock")
    /\ UNCHANGED <<slot, mutex, epoch, resetsDone, globalRefs,
                   batches, clinit, aborted, rt, pending, g_descriptorFieldID, heap, inv>>

\* Line 182: lock_guard's destructor; Uninitialize returns.
UninitUnlock(t) ==
    /\ Running
    /\ At(t, {"Uninitialize"}, "unlock")
    /\ mutex' = NoThread
    /\ resetsDone' = resetsDone + 1
    /\ stack' = Goto(t, "done")
    /\ UNCHANGED <<slot, initialized, epoch, globalRefs, batches, clinit, aborted, rt, pending, g_descriptorFieldID, heap, inv>>

(* ------------------------------------------------------------------ *)
(* jniGetFDFromFileDescriptor and jniGetFDFromFileDescriptor_QR        *)
(* ------------------------------------------------------------------ *)

\* The two readers of the descriptor field: the one of libnativehelper.so,
\* which takes the field id from JniConstants, and the one of
\* libnativehelper_compat_libc++.so, which keeps the id in a static of
\* its own (its exported jniGetFDFromFileDescriptor only calls it).
GetFDFns == {"jniGetFDFromFileDescriptor", "jniGetFDFromFileDescriptor_QR"}

\* The frame of a helper: its jobject argument and its result besides.
HelpFrame(fn, pc, arg) == [fn |-> fn, pc |-> pc, v |-> Null, arg |-> arg, res |-> 0]

\* The stack of t after its helper has computed res and returned.
HelpReturn(t, res) ==
    [stack EXCEPT ![t] = WithTop(t, [Top(t) EXCEPT !.pc = "done", !.res = res])]

\* A native thread calls one of the two functions with a FileDescriptor
\* object or with NULL.
CallGetFD(t, fn, obj) ==
    /\ Running
    /\ t \in AppThreads
    /\ stack[t] = <<>>
    /\ stack' = [stack EXCEPT ![t] = <<HelpFrame(fn, "entry", obj)>>]
    /\ UNCHANGED <<slot, initialized, mutex, epoch, resetsDone, globalRefs,
                   batches, clinit, aborted, rt, pending, g_descriptorFieldID, heap, inv>>

\* GetFDEntry with the null test left out.
GetFDEntryUnchecked(t) ==
    /\ Running
    /\ At(t, {"jniGetFDFromFileDescriptor"}, "entry")
    /\ stack' = [stack EXCEPT ![t] =
                    Append(WithTop(t, [Top(t) EXCEPT !.pc = "call"]),
                           Frame("GetFileDescriptorDescriptorField", "check", Null))]
    /\ UNCHANGED <<slot, initialized, mutex, epoch, resetsDone, globalRefs,
                   batches, clinit, aborted, rt, pending, g_descriptorFieldID, heap, inv>>

\* JNIHelpCompat.c lines 383-389: -1 for NULL; otherwise the argument of
\* GetIntField, JniConstants_FileDescriptor_descriptor(env), is evaluated.
GetFDEntry(t) ==
    /\ Running
    /\ At(t, {"jniGetFDFromFileDescriptor"}, "entry")
    /\ IF Top(t).arg = NullObject
       THEN stack' = HelpReturn(t, 0 - 1)
       ELSE stack' = [stack EXCEPT ![t] =
                Append(WithTop(t, [Top(t) EXCEPT !.pc = "call"]),
                       Frame("GetFileDescriptorDescriptorField", "check", Null))]
    /\ UNCHANGED <<slot, initialized, mutex, epoch, resetsDone, globalRefs,
                   batches, clinit, aborted, rt, pending, g_descriptorFieldID, heap, inv>>

\* What env->GetIntField(obj, id) yields: the process dies on a NULL
\* object or a null id; an id of a runtime that is gone, or of another
\* field, names no int field of the object: the process dies or any value
\* comes back; otherwise the value of the field.
GetIntFieldOutcomes(obj, id) ==
    LET died == [ok |-> FALSE, val |-> 0]
        Yields(x) == [ok |-> TRUE, val |-> x]
    IN  IF obj = NullObject \/ id = Null THEN {died}
        ELSE IF id.ep # epoch \/ id.name # "descriptor:I"
             THEN {died} \cup {Yields(x) : x \in FdValues}
        ELSE {Yields(heap[obj])}

\* Lines 385-386 and line 45: the call of GetIntField and the return of
\* its result.
GetIntField(t, id) ==
    \E outcome \in GetIntFieldOutcomes(Top(t).arg, id) :
        IF outcome.ok
        THEN /\ aborted' = aborted
             /\ stack' = HelpReturn(t, outcome.val)
        ELSE /\ aborted' = "crash"
             /\ stack' = stack

\* Lines 385-386: GetIntField with the id the accessor returned.
GetFDGet(t) ==
    /\ Running
    /\ At(t, {"jniGetFDFromFileDescriptor"}, "get")
    /\ GetIntField(t, Top(t).v)
    /\ UNCHANGED <<slot, initialized, mutex, epoch, resetsDone, globalRefs,
                   batches, clinit, rt, pending, g_descriptorFieldID, heap, inv>>

\* Lines 34-36: -1 for NULL, before the static is looked at.
QREntry(t) ==
    /\ Running
    /\ At(t, {"jniGetFDFromFileDescriptor_QR"}, "entry")
    /\ stack' = IF Top(t).arg = NullObject THEN HelpReturn(t, 0 - 1)
                                           ELSE Goto(t, "check")
    /\ UNCHANGED <<slot, initialized, mutex, epoch, resetsDone, globalRefs,
                   batches, clinit, aborted, rt, pending, g_descriptorFieldID, heap, inv>>

\* Line 39: the unguarded null check of the static field id.
QRCheck(t) ==
    /\ Running
    /\ At(t, {"jniGetFDFromFileDescriptor_QR"}, "check")
    /\ stack' = Goto(t, IF g_descriptorFieldID = Null THEN "findclass" ELSE "get")
    /\ UNCHANGED <<slot, initialized, mutex, epoch, resetsDone, globalRefs,
                   batches, clinit, aborted, rt, pending, g_descriptorFieldID, heap, inv>>

\* Line 40: FindClass; its result, a local reference or NULL, is not
\* checked.
QRFindClass(t) ==
    /\ Running
    /\ At(t, {"jniGetFDFromFileDescriptor_QR"}, "findclass")
    /\ \E found \in {TRUE} \cup (IF rt.missing THEN {FALSE} ELSE {}) :
         stack' = [stack EXCEPT ![t] = WithTop(t,
                     [Top(t) EXCEPT !.pc = "getfield",
                                    !.v = IF found
                                          THEN [name |-> "java/io/FileDescriptor",
                                                ep |-> epoch, ref |-> 0]
                                          ELSE Null])]
    /\ UNCHANGED <<slot, initialized, mutex, epoch, resetsDone, globalRefs,
                   batches, clinit, aborted, rt, pending, g_descriptorFieldID, heap, inv>>

\* Line 41, the call: GetFieldID; its result is not checked either.
QRGetFieldID(t) ==
    /\ Running
    /\ At(t, {"jniGetFDFromFileDescriptor_QR"}, "getfield")
    /\ LET klass == Top(t).v IN
       /\ (klass # Null /\ klass.ep = epoch) => clinit \in {"no", "done", t}
       /\ \E outcome \in LookupOutcomes(t, "GetFileDescriptorDescriptorField", klass) :
            CASE outcome = "crash" ->
                   /\ aborted' = "crash"
                   /\ UNCHANGED <<stack, clinit>>
              [] outcome = "reenter" ->
                   /\ clinit' = t
                   /\ stack' = [stack EXCEPT ![t] =
                         Append(WithTop(t, [Top(t) EXCEPT !.pc = "clinit"]),
                                Frame("GetFileDescriptorDescriptorField", "check", Null))]
                   /\ aborted' = aborted
              [] outcome = "absent" ->
                   /\ stack' = [stack EXCEPT ![t] =
                         WithTop(t, [Top(t) EXCEPT !.pc = "store", !.v = Null])]
                   /\ UNCHANGED <<clinit, aborted>>
              [] outcome \in {"ok", "stale"} ->
                   /\ stack' = [stack EXCEPT ![t] =
                         WithTop(t, [Top(t) EXCEPT !.pc = "store",
                              !.v = [name |-> "descriptor:I", ep |-> klass.ep, ref |-> 0]])]
                   /\ UNCHANGED <<clinit, aborted>>
    /\ UNCHANGED <<slot, initialized, mutex, epoch, resetsDone, globalRefs,
                   batches, rt, pending, g_descriptorFieldID, heap, inv>>

\* Lines 41-42: the unguarded store to the static, and DeleteLocalRef.
QRStore(t) ==
    /\ Running
    /\ At(t, {"jniGetFDFromFileDescriptor_QR"}, "store")
    /\ g_descriptorFieldID' = Top(t).v
    /\ stack' = Goto(t, "get")
    /\ UNCHANGED <<slot, initialized, mutex, epoch, resetsDone, globalRefs,
                   batches, clinit, aborted, rt, pending, heap, inv>>

\* Line 45: GetIntField with the static as it is now.
QRGet(t) ==
    /\ Running
    /\ At(t, {"jniGetFDFromFileDescriptor_QR"}, "get")
    /\ GetIntField(t, g_descriptorFieldID)
    /\ UNCHANGED <<slot, initialized, mutex, epoch, resetsDone, globalRefs,
                   batches, clinit, rt, pending, g_descriptorFieldID, heap, inv>>

\* The steps of thread t in the two readers of the descriptor field.
GetFDStep(t) ==
    \/ \E fn \in GetFDFns, obj \in Objects \cup {NullObject} : CallGetFD(t, fn, obj)
    \/ GetFDEntry(t)
    \/ GetFDGet(t)
    \/ QREntry(t)
    \/ QRCheck(t)
    \/ QRFindClass(t)
    \/ QRGetFieldID(t)
    \/ QRStore(t)
    \/ QRGet(t)

(* ------------------------------------------------------------------ *)
(* jniThrowException and jniLogException (JNIHelpCompat.c)             *)
(* ------------------------------------------------------------------ *)

\* The exception classes native code asks for: one the runtime has, one
\* it does not have.
KnownExceptionClasses == {"java/lang/RuntimeException",
                          "java/lang/NullPointerException"}

ExceptionClasses == {"java/lang/RuntimeException", "no/such/Exception"}

\* What can be pending in a thread when it calls a helper: nothing, or an
\* exception an earlier JNI call of the native code raised.
EntryExceptions == {NoException, "EntryException"}

\* The jthrowable arguments of jniLogException.
ThrownArgs == {NullObject, "ThrownArg"}

\* The frame of an exception helper: its argument, the exception that was
\* pending when it was called, and its local jthrowable.
ExcFrame(fn, arg, entry) ==
    [fn |-> fn, pc |-> "entry", v |-> Null, arg |-> arg, res |-> 0,
     entry |-> entry, saved |-> NoException]

SetPending(t, e) == [pending EXCEPT ![t] = e]

\* GetExceptionSummary, lines 131-178, by what it leaves pending: the
\* failures of getName and of the UTF-8 conversions are cleared (lines 139,
\* 148, 172); when getMessage returns NULL the function returns at once
\* (lines 156-158), and that is also what CallObjectMethod returns when
\* getMessage has thrown: that exception stays pending.
SummaryLeaves == {NoException, "RaisedInSummary"}

\* A native thread calls jniThrowException(env, className, message).
CallThrow(t, cls, e) ==
    /\ Running
    /\ t \in AppThreads
    /\ stack[t] = <<>>
    /\ stack' = [stack EXCEPT ![t] = <<ExcFrame("jniThrowException", cls, e)>>]
    /\ pending' = SetPending(t, e)
    /\ UNCHANGED <<slot, initialized, mutex, epoch, resetsDone, globalRefs,
                   batches, clinit, aborted, rt, g_descriptorFieldID, heap, inv>>

\* Lines 272-276 of DiscardPendingException: ExceptionOccurred,
\* ExceptionClear, and the return when nothing was pending.
ThrowDiscard(t) ==
    /\ Running
    /\ At(t, {"jniThrowException"}, "entry")
    /\ pending' = SetPending(t, NoException)
    /\ stack' = Goto(t, IF pending[t] = NoException THEN "findclass" ELSE "summary")
    /\ UNCHANGED <<slot, initialized, mutex, epoch, resetsDone, globalRefs,
                   batches, clinit, aborted, rt, g_descriptorFieldID, heap, inv>>

\* Lines 278-284: the summary of the discarded exception, for the log.
ThrowSummary(t) ==
    /\ Running
    /\ At(t, {"jniThrowException"}, "summary")
    /\ \E e \in SummaryLeaves : pending' = SetPending(t, e)
    /\ stack' = Goto(t, "findclass")
    /\ UNCHANGED <<slot, initialized, mutex, epoch, resetsDone, globalRefs,
                   batches, clinit, aborted, rt, g_descriptorFieldID, heap, inv>>

\* Lines 333-338: FindClass; NULL returns -1 with the runtime's
\* NoClassDefFoundError pending.  Called with an exception pending, the
\* behaviour of FindClass is undefined: the process may die there.
ThrowFindClass(t) ==
    /\ Running
    /\ At(t, {"jniThrowException"}, "findclass")
    /\ \/ /\ Top(t).arg \in KnownExceptionClasses
          /\ stack' = Goto(t, "thrownew")
          /\ UNCHANGED <<pending, aborted>>
       \/ /\ Top(t).arg \notin KnownExceptionClasses
          /\ pending' = SetPending(t, "NoClassDefFoundError")
          /\ stack' = HelpReturn(t, 0 - 1)
          /\ aborted' = aborted
       \/ /\ pending[t] # NoException
          /\ aborted' = "crash"
          /\ UNCHANGED <<pending, stack>>
    /\ UNCHANGED <<slot, initialized, mutex, epoch, resetsDone, globalRefs,
                   batches, clinit, rt, g_descriptorFieldID, heap, inv>>

\* Whether an allocation of the runtime succeeds: it can fail only in a
\* runtime that is short of memory.
AllocationOutcomes == IF rt.oom THEN BOOLEAN ELSE {TRUE}

\* ThrowNew with the failure of env->ThrowNew not turned into status -1.
ThrowNewStatusIgnored(t) ==
    /\ Running
    /\ At(t, {"jniThrowException"}, "thrownew")
    /\ \E ok \in AllocationOutcomes :
         /\ pending' = SetPending(t, IF ok THEN Top(t).arg ELSE "OutOfMemoryError")
         /\ stack' = HelpReturn(t, 0)
    /\ UNCHANGED <<slot, initialized, mutex, epoch, resetsDone, globalRefs,
                   batches, clinit, aborted, rt, g_descriptorFieldID, heap, inv>>

\* Lines 340-348: ThrowNew; in a runtime that is short of memory it can
\* fail, which leaves the runtime's OutOfMemoryError pending and gives
\* status -1.
ThrowNew(t) ==
    /\ Running
    /\ At(t, {"jniThrowException"}, "thrownew")
    /\ \E ok \in AllocationOutcomes :
         /\ pending' = SetPending(t, IF ok THEN Top(t).arg ELSE "OutOfMemoryError")
         /\ stack' = HelpReturn(t, IF ok THEN 0 ELSE 0 - 1)
    /\ UNCHANGED <<slot, initialized, mutex, epoch, resetsDone, globalRefs,
                   batches, clinit, aborted, rt, g_descriptorFieldID, heap, inv>>

\* The steps of thread t in jniThrowException.
ThrowStep(t) ==
    \/ \E cls \in ExceptionClasses, e \in EntryExceptions : CallThrow(t, cls, e)
    \/ ThrowDiscard(t)
    \/ ThrowSummary(t)
    \/ ThrowFindClass(t)
    \/ ThrowNew(t)

\* A native thread calls jniLogException(env, priority, tag, thrown).
CallLog(t, thrown, e) ==
    /\ Running
    /\ t \in AppThreads
    /\ stack[t] = <<>>
    /\ stack' = [stack EXCEPT ![t] = <<ExcFrame("jniLogException", thrown, e)>>]
    /\ pending' = SetPending(t, e)
    /\ UNCHANGED <<slot, initialized, mutex, epoch, resetsDone, globalRefs,
                   batches, clinit, aborted, rt, g_descriptorFieldID, heap, inv>>

\* Lines 245-256 of GetStackTraceOrSummary: the pending exception is saved
\* and cleared; with no thrown argument it is the one to report, and with
\* neither the function returns.
LogSave(t) ==
    /\ Running
    /\ At(t, {"jniLogException"}, "entry")
    /\ pending' = SetPending(t, NoException)
    /\ stack' = [stack EXCEPT ![t] = WithTop(t,
          IF Top(t).arg = NullObject /\ pending[t] = NoException
          THEN [Top(t) EXCEPT !.pc = "done"]
          ELSE [Top(t) EXCEPT !.pc = "trace", !.saved = pending[t],
                   !.arg = IF Top(t).arg = NullObject THEN pending[t] ELSE Top(t).arg])]
    /\ UNCHANGED <<slot, initialized, mutex, epoch, resetsDone, globalRefs,
                   batches, clinit, aborted, rt, g_descriptorFieldID, heap, inv>>

\* Line 258, GetStackTrace (lines 203-236): it returns false when a writer
\* cannot be created or the trace cannot be had, with or without an
\* exception pending; it returns true with the trace.  printStackTrace
\* (line 220) can raise an exception, which the function does not look
\* for: the calls after it then run with an exception pending, where the
\* process may die, and where toString may still yield a trace, so that
\* the function returns true with that exception pending.
LogTrace(t) ==
    /\ Running
    /\ At(t, {"jniLogException"}, "trace")
    /\ \/ /\ stack' = Goto(t, "rethrow")
          /\ UNCHANGED <<pending, aborted>>
       \/ /\ \E e \in {NoException, "RaisedInTrace"} : pending' = SetPending(t, e)
          /\ stack' = Goto(t, "clear")
          /\ aborted' = aborted
       \/ /\ pending' = SetPending(t, "RaisedInTrace")
          /\ stack' = Goto(t, "rethrow")
          /\ aborted' = aborted
       \/ /\ aborted' = "crash"
          /\ UNCHANGED <<pending, stack>>
    /\ UNCHANGED <<slot, initialized, mutex, epoch, resetsDone, globalRefs,
                   batches, clinit, rt, g_descriptorFieldID, heap, inv>>

\* Line 260: what GetStackTrace raised is cleared.
LogClear(t) ==
    /\ Running
    /\ At(t, {"jniLogException"}, "clear")
    /\ pending' = SetPending(t, NoException)
    /\ stack' = Goto(t, "summary")
    /\ UNCHANGED <<slot, initialized, mutex, epoch, resetsDone, globalRefs,
                   batches, clinit, aborted, rt, g_descriptorFieldID, heap, inv>>

\* Line 261: GetExceptionSummary in place of the trace.
LogSummary(t) ==
    /\ Running
    /\ At(t, {"jniLogException"}, "summary")
    /\ \E e \in SummaryLeaves : pending' = SetPending(t, e)
    /\ stack' = Goto(t, "rethrow")
    /\ UNCHANGED <<slot, initialized, mutex, epoch, resetsDone, globalRefs,
                   batches, clinit, aborted, rt, g_descriptorFieldID, heap, inv>>

\* Lines 264-268: the exception saved at entry, if any, is thrown again;
\* then jniLogException writes the log and returns.
LogRethrow(t) ==
    /\ Running
    /\ At(t, {"jniLogException"}, "rethrow")
    /\ pending' = IF Top(t).saved # NoException THEN SetPending(t, Top(t).saved)
                                                ELSE pending
    /\ stack' = Goto(t, "done")
    /\ UNCHANGED <<slot, initialized, mutex, epoch, resetsDone, globalRefs,
                   batches, clinit, aborted, rt, g_descriptorFieldID, heap, inv>>

\* The steps of thread t in jniLogException.
LogStep(t) ==
    \/ \E thrown \in ThrownArgs, e \in EntryExceptions : CallLog(t, thrown, e)
    \/ LogSave(t)
    \/ LogTrace(t)
    \/ LogClear(t)
    \/ LogSummary(t)
    \/ LogRethrow(t)

(* ------------------------------------------------------------------ *)
(* JniInvocationGetLibraryWith                                         *)
(* ------------------------------------------------------------------ *)

\* The result on a non-debuggable build with the requested library
\* honoured.
GetLibraryHonoursRequest(library, debuggable, property) ==
    IF library # NullString THEN library
    ELSE IF debuggable THEN property ELSE kDefaultJniInvocationLibrary

\* The result on a debuggable build with the property not consulted.
GetLibraryIgnoresProperty(library, debuggable, property) ==
    IF ~debuggable THEN kDefaultJniInvocationLibrary
    ELSE IF library # NullString THEN library
    ELSE kDefaultJniInvocationLibrary

\* The library JniInvocationGetLibraryWith selects: the default on a
\* non-debuggable build; on a debuggable build the requested library, and
\* without one the library named by the system property.
GetLibrary(library, debuggable, property) ==
    IF ~debuggable THEN kDefaultJniInvocationLibrary
    ELSE IF library # NullString THEN library
    ELSE property

\* Whether the property getter is called: not on a non-debuggable build
\* (the caller may pass no getter), always when the property is what is
\* returned, and otherwise either way.
GetterCalled(library, debuggable) ==
    IF ~debuggable THEN {FALSE}
    ELSE IF library = NullString THEN {TRUE}
    ELSE BOOLEAN

\* JniInvocationGetLibraryWith(library, buffer, is_debuggable, getter).
InvocationCall(library) ==
    /\ Running
    /\ \E read \in GetterCalled(library, inv.debuggable) :
         inv' = [inv EXCEPT !.called = TRUE,
                            !.library = library,
                            !.result = GetLibrary(library, inv.debuggable, inv.property),
                            !.propertyRead = read]
    /\ UNCHANGED <<slot, initialized, mutex, stack, epoch, resetsDone, globalRefs,
                   batches, clinit, aborted, rt, pending, g_descriptorFieldID, heap>>

\* The system property is set to another library.
SetProperty(p) ==
    /\ Running
    /\ p # inv.property
    /\ inv' = [inv EXCEPT !.property = p, !.called = FALSE, !.library = NullString,
                          !.result = NullString, !.propertyRead = FALSE]
    /\ UNCHANGED <<slot, initialized, mutex, stack, epoch, resetsDone, globalRefs,
                   batches, clinit, aborted, rt, pending, g_descriptorFieldID, heap>>

(* ------------------------------------------------------------------ *)
(* jniRegisterNativeMethods, in C (JNIHelpCompat.c) and in C++         *)
(* ------------------------------------------------------------------ *)

\* The two implementations of the function.
RegisterImpls == {"c", "cpp"}

\* The classes native code registers methods for: one the runtime has,
\* one it does not have.
KnownClasses == {"java/lang/Object"}

RegisterClasses == KnownClasses \cup {"no/such/Class"}

\* JNI_OK, JNI_ERR and a positive value: the values of the jint that
\* env->RegisterNatives returns.
RegisterResults == {0, 0 - 1, 1}

\* The frame of jniRegisterNativeMethods: the implementation, className
\* and the local result.
RegisterFrame(impl, cls) ==
    [fn |-> "jniRegisterNativeMethods", pc |-> "entry", v |-> Null, arg |-> cls,
     res |-> 0, impl |-> impl, result |-> 0]

\* A native thread calls jniRegisterNativeMethods(env, className, ...).
CallRegister(t, impl, cls) ==
    /\ Running
    /\ t \in AppThreads
    /\ stack[t] = <<>>
    /\ stack' = [stack EXCEPT ![t] = <<RegisterFrame(impl, cls)>>]
    /\ UNCHANGED <<slot, initialized, mutex, epoch, resetsDone, globalRefs,
                   batches, clinit, aborted, rt, pending, g_descriptorFieldID, heap, inv>>

\* JNIHelpCompat.c lines 295-298, C++ lines 312-315: FindClass; a class
\* that is not found is fatal.
RegisterFindClass(t) ==
    /\ Running
    /\ At(t, {"jniRegisterNativeMethods"}, "entry")
    /\ IF Top(t).arg \in KnownClasses
       THEN /\ stack' = Goto(t, "register")
            /\ aborted' = aborted
       ELSE /\ aborted' = "Native registration unable to find class"
            /\ stack' = stack
    /\ UNCHANGED <<slot, initialized, mutex, epoch, resetsDone, globalRefs,
                   batches, clinit, rt, pending, g_descriptorFieldID, heap, inv>>

\* Line 299, C++ line 317: the call of RegisterNatives.
RegisterNatives(t) ==
    /\ Running
    /\ At(t, {"jniRegisterNativeMethods"}, "register")
    /\ \E r \in RegisterResults :
         stack' = [stack EXCEPT ![t] =
                      WithTop(t, [Top(t) EXCEPT !.pc = "test", !.result = r])]
    /\ UNCHANGED <<slot, initialized, mutex, epoch, resetsDone, globalRefs,
                   batches, clinit, aborted, rt, pending, g_descriptorFieldID, heap, inv>>

\* Whether the implementation takes result for a failure: the C code
\* returns 0 for result == 0 and is fatal otherwise (lines 301-317); the
\* C++ code is fatal for result < 0 and returns 0 otherwise.
RegisterFails(impl, result) ==
    IF impl = "c" THEN result # 0 ELSE result < 0

\* Lines 301-318, C++ lines 318-321: the test of result.
RegisterTest(t) ==
    /\ Running
    /\ At(t, {"jniRegisterNativeMethods"}, "test")
    /\ IF RegisterFails(Top(t).impl, Top(t).result)
       THEN /\ aborted' = "RegisterNatives failed"
            /\ stack' = stack
       ELSE /\ stack' = HelpReturn(t, 0)
            /\ aborted' = aborted
    /\ UNCHANGED <<slot, initialized, mutex, epoch, resetsDone, globalRefs,
                   batches, clinit, rt, pending, g_descriptorFieldID, heap, inv>>

\* The steps of thread t in jniRegisterNativeMethods.
RegisterStep(t) ==
    \/ \E impl \in RegisterImpls, cls \in RegisterClasses : CallRegister(t, impl, cls)
    \/ RegisterFindClass(t)
    \/ RegisterNatives(t)
    \/ RegisterTest(t)

(* ------------------------------------------------------------------ *)
(* jniCreateFileDescriptor and jniSetFileDescriptorOfFD                *)
(* ------------------------------------------------------------------ *)

\* The fd and value arguments native code passes.
FdArgValues == {0, 5}

\* The object NewObject yields in a thread: the thread's local reference
\* to a new java.io.FileDescriptor.
NewObjectOf(t) ==
    CASE t = "t1" -> "fdOfT1"
      [] t = "t2" -> "fdOfT2"
      [] OTHER    -> "fdOfMain"

\* The FileDescriptor arguments thread t can pass: NULL, an object all
\* native code holds, or the object it created itself.
FdArgsOf(t) == {NullObject} \cup Objects \cup ({NewObjectOf(t)} \cap DOMAIN heap)

\* The frame of one of the two helpers: the jobject and int arguments, the
\* klass (v) and the method id (id) of NewObject, the arguments still to
\* be evaluated, and the local fileDescriptor.
FdFrame(fn, arg, value) ==
    [fn |-> fn, pc |-> "entry", v |-> Null, arg |-> arg, res |-> 0,
     value |-> value, id |-> Null, todo |-> <<>>, obj |-> NullObject]

\* A native thread calls jniCreateFileDescriptor(env, fd); it has dealt
\* with whatever exception an earlier call left pending.
CallCreateFD(t, fd) ==
    /\ Running
    /\ t \in AppThreads
    /\ stack[t] = <<>>
    /\ stack' = [stack EXCEPT ![t] = <<FdFrame("jniCreateFileDescriptor", NullObject, fd)>>]
    /\ pending' = SetPending(t, NoException)
    /\ UNCHANGED <<slot, initialized, mutex, epoch, resetsDone, globalRefs,
                   batches, clinit, aborted, rt, g_descriptorFieldID, heap, inv>>

\* A native thread calls jniSetFileDescriptorOfFD(env, fileDescriptor, value).
CallSetFD(t, obj, value) ==
    /\ Running
    /\ t \in AppThreads
    /\ stack[t] = <<>>
    /\ stack' = [stack EXCEPT ![t] = <<FdFrame("jniSetFileDescriptorOfFD", obj, value)>>]
    /\ pending' = SetPending(t, NoException)
    /\ UNCHANGED <<slot, initialized, mutex, epoch, resetsDone, globalRefs,
                   batches, clinit, aborted, rt, g_descriptorFieldID, heap, inv>>

\* Lines 372-374: the two arguments of NewObject are calls; C leaves the
\* order of their evaluation to the compiler.
CreateEntry(t) ==
    /\ Running
    /\ At(t, {"jniCreateFileDescriptor"}, "entry")
    /\ \E order \in {<<"class", "init">>, <<"init", "class">>} :
         stack' = [stack EXCEPT ![t] =
                      WithTop(t, [Top(t) EXCEPT !.pc = "args", !.todo = order])]
    /\ UNCHANGED <<slot, initialized, mutex, epoch, resetsDone, globalRefs,
                   batches, clinit, aborted, rt, pending, g_descriptorFieldID, heap, inv>>

\* Lines 373-374: the next argument is evaluated, JniConstants_
\* FileDescriptorClass(env) for the klass or JniConstants_FileDescriptor_
\* init(env) for the method id; with both evaluated NewObject is called.
CreateArgs(t) ==
    /\ Running
    /\ At(t, {"jniCreateFileDescriptor"}, "args")
    /\ stack' = [stack EXCEPT ![t] =
         IF Top(t).todo = <<>>
         THEN WithTop(t, [Top(t) EXCEPT !.pc = "new"])
         ELSE IF Head(Top(t).todo) = "class"
         THEN Append(WithTop(t, [Top(t) EXCEPT !.pc = "call", !.todo = Tail(@)]),
                     Frame("GetFileDescriptorClass", "fast", Null))
         ELSE Append(WithTop(t, [Top(t) EXCEPT !.pc = "call2", !.todo = Tail(@)]),
                     Frame("GetFileDescriptorInitMethod", "check", Null))]
    /\ UNCHANGED <<slot, initialized, mutex, epoch, resetsDone, globalRefs,
                   batches, clinit, aborted, rt, pending, g_descriptorFieldID, heap, inv>>

\* What env->NewObject(klass, id) does: the process dies on a null klass
\* or id; with a handle of a runtime that is gone, or an id of another
\* member, anything can happen; otherwise the object is allocated and
\* constructed, unless the runtime is short of memory.
NewObjectOutcomes(klass, id) ==
    IF klass = Null \/ id = Null THEN {"crash"}
    ELSE IF klass.ep # epoch \/ id.ep # epoch \/ klass.name # "java/io/FileDescriptor"
            \/ id.name # "<init>()V"
         THEN {"crash", "oom", "ok"}
    ELSE {"ok"} \cup (IF rt.oom THEN {"oom"} ELSE {})

\* The heap after the constructor of FileDescriptor has run on a new object.
Allocated(obj) ==
    [o \in DOMAIN heap \cup {obj} |-> IF o = obj THEN ClosedFd ELSE heap[o]]

\* CreateNew that returns the new object as its constructor left it.
CreateNewNoSet(t) ==
    /\ Running
    /\ At(t, {"jniCreateFileDescriptor"}, "new")
    /\ \E outcome \in NewObjectOutcomes(Top(t).v, Top(t).id) :
         CASE outcome = "crash" ->
                /\ aborted' = "crash"
                /\ UNCHANGED <<stack, pending, heap>>
           [] outcome = "oom" ->
                /\ pending' = SetPending(t, "OutOfMemoryError")
                /\ stack' = [stack EXCEPT ![t] =
                      WithTop(t, [Top(t) EXCEPT !.pc = "done", !.obj = NullObject])]
                /\ UNCHANGED <<aborted, heap>>
           [] outcome = "ok" ->
                /\ heap' = Allocated(NewObjectOf(t))
                /\ stack' = [stack EXCEPT ![t] =
                      WithTop(t, [Top(t) EXCEPT !.pc = "done", !.obj = NewObjectOf(t)])]
                /\ UNCHANGED <<aborted, pending>>
    /\ UNCHANGED <<slot, initialized, mutex, epoch, resetsDone, globalRefs,
                   batches, clinit, rt, g_descriptorFieldID, inv>>

\* Lines 372-380: NewObject and the test of its result.  NULL, with the
\* runtime's OutOfMemoryError pending, is returned as it is; a new object
\* goes on to jniSetFileDescriptorOfFD.
CreateNew(t) ==
    /\ Running
    /\ At(t, {"jniCreateFileDescriptor"}, "new")
    /\ \E outcome \in NewObjectOutcomes(Top(t).v, Top(t).id) :
         CASE outcome = "crash" ->
                /\ aborted' = "crash"
                /\ UNCHANGED <<stack, pending, heap>>
           [] outcome = "oom" ->
                /\ pending' = SetPending(t, "OutOfMemoryError")
                /\ stack' = [stack EXCEPT ![t] =
                      WithTop(t, [Top(t) EXCEPT !.pc = "done", !.obj = NullObject])]
                /\ UNCHANGED <<aborted, heap>>
           [] outcome = "ok" ->
                /\ heap' = Allocated(NewObjectOf(t))
                /\ stack' = [stack EXCEPT ![t] =
                      WithTop(t, [Top(t) EXCEPT !.pc = "set", !.obj = NewObjectOf(t)])]
                /\ UNCHANGED <<aborted, pending>>
    /\ UNCHANGED <<slot, initialized, mutex, epoch, resetsDone, globalRefs,
                   batches, clinit, rt, g_descriptorFieldID, inv>>

\* Line 378: the call jniSetFileDescriptorOfFD(env, fileDescriptor, fd).
CreateSet(t) ==
    /\ Running
    /\ At(t, {"jniCreateFileDescriptor"}, "set")
    /\ stack' = [stack EXCEPT ![t] =
          Append(WithTop(t, [Top(t) EXCEPT !.pc = "inset"]),
                 FdFrame("jniSetFileDescriptorOfFD", Top(t).obj, Top(t).value))]
    /\ UNCHANGED <<slot, initialized, mutex, epoch, resetsDone, globalRefs,
                   batches, clinit, aborted, rt, pending, g_descriptorFieldID, heap, inv>>

\* SetEntry that returns at once for NULL, without throwing.
SetEntryNullIgnored(t) ==
    /\ Running
    /\ At(t, {"jniSetFileDescriptorOfFD"}, "entry")
    /\ stack' = [stack EXCEPT ![t] =
          IF Top(t).arg = NullObject
          THEN WithTop(t, [Top(t) EXCEPT !.pc = "ret"])
          ELSE Append(WithTop(t, [Top(t) EXCEPT !.pc = "call"]),
                      Frame("GetFileDescriptorDescriptorField", "check", Null))]
    /\ UNCHANGED <<slot, initialized, mutex, epoch, resetsDone, globalRefs,
                   batches, clinit, aborted, rt, pending, g_descriptorFieldID, heap, inv>>

\* Lines 393-398 and 357-359: for NULL, jniThrowNullPointerException, which
\* is jniThrowException with java/lang/NullPointerException; otherwise the
\* argument of SetIntField, JniConstants_FileDescriptor_descriptor(env),
\* is evaluated.
SetEntry(t) ==
    /\ Running
    /\ At(t, {"jniSetFileDescriptorOfFD"}, "entry")
    /\ stack' = [stack EXCEPT ![t] =
          IF Top(t).arg = NullObject
          THEN Append(WithTop(t, [Top(t) EXCEPT !.pc = "throw"]),
                      ExcFrame("jniThrowException", "java/lang/NullPointerException",
                               pending[t]))
          ELSE Append(WithTop(t, [Top(t) EXCEPT !.pc = "call"]),
                      Frame("GetFileDescriptorDescriptorField", "check", Null))]
    /\ UNCHANGED <<slot, initialized, mutex, epoch, resetsDone, globalRefs,
                   batches, clinit, aborted, rt, pending, g_descriptorFieldID, heap, inv>>

\* Lines 394-395: jniThrowException has returned; its status is not used.
SetThrown(t) ==
    /\ Running
    /\ Len(stack[t]) > 1
    /\ At(t, {"jniThrowException"}, "done")
    /\ LET n == Len(stack[t])
           caller == stack[t][n - 1]
       IN  /\ caller.fn = "jniSetFileDescriptorOfFD"
           /\ caller.pc = "throw"
           /\ stack' = [stack EXCEPT ![t] =
                 Append(SubSeq(stack[t], 1, n - 2), [caller EXCEPT !.pc = "ret"])]
    /\ UNCHANGED <<slot, initialized, mutex, epoch, resetsDone, globalRefs,
                   batches, clinit, aborted, rt, pending, g_descriptorFieldID, heap, inv>>

\* What env->SetIntField(obj, id, value) does: the process dies on a null
\* id; an id of a runtime that is gone, or of another field, names no int
\* field of the object: the process dies or the write goes elsewhere;
\* otherwise the field is written.
SetIntFieldOutcomes(id) ==
    IF id = Null THEN {"crash"}
    ELSE IF id.ep # epoch \/ id.name # "descriptor:I" THEN {"crash", "lost"}
    ELSE {"ok"}

\* Lines 396-397: SetIntField with the id the accessor returned.
SetField(t) ==
    /\ Running
    /\ At(t, {"jniSetFileDescriptorOfFD"}, "setfield")
    /\ \E outcome \in SetIntFieldOutcomes(Top(t).v) :
         CASE outcome = "crash" ->
                /\ aborted' = "crash"
                /\ UNCHANGED <<stack, heap>>
           [] outcome = "lost" ->
                /\ stack' = Goto(t, "ret")
                /\ UNCHANGED <<aborted, heap>>
           [] outcome = "ok" ->
                /\ heap' = [heap EXCEPT ![Top(t).arg] = Top(t).value]
                /\ stack' = Goto(t, "ret")
                /\ aborted' = aborted
    /\ UNCHANGED <<slot, initialized, mutex, epoch, resetsDone, globalRefs,
                   batches, clinit, rt, pending, g_descriptorFieldID, inv>>

\* Line 399 and lines 379-380: jniSetFileDescriptorOfFD returns, to the
\* native caller or to jniCreateFileDescriptor, which returns its object.
SetReturn(t) ==
    /\ Running
    /\ At(t, {"jniSetFileDescriptorOfFD"}, "ret")
    /\ LET n == Len(stack[t]) IN
       stack' = [stack EXCEPT ![t] =
          IF n = 1
          THEN WithTop(t, [Top(t) EXCEPT !.pc = "done"])
          ELSE Append(SubSeq(stack[t], 1, n - 2),
                      [stack[t][n - 1] EXCEPT !.pc = "done"])]
    /\ UNCHANGED <<slot, initialized, mutex, epoch, resetsDone, globalRefs,
                   batches, clinit, aborted, rt, pending, g_descriptorFieldID, heap, inv>>

\* The steps of thread t inside the accessors the helpers call, and the
\* return of its outermost call to the native caller.
AccessorBody(t) ==
    \/ EnsureFast(t)
    \/ EnsureLock(t)
    \/ EnsureRecheck(t)
    \/ EnsureFindClass(t)
    \/ EnsureStore(t)
    \/ EnsureUnlock(t)
    \/ ClassReturn(t)
    \/ MemberCheck(t)
    \/ MemberLookup(t)
    \/ MemberStore(t)
    \/ MemberReturn(t)
    \/ Finish(t)

\* The steps of thread t in jniSetFileDescriptorOfFD, called by native
\* code.  No exception is pending at the call, so DiscardPendingException
\* has nothing to summarise.
SetFDStep(t) ==
    \/ \E obj \in FdArgsOf(t), value \in FdArgValues : CallSetFD(t, obj, value)
    \/ SetEntry(t)
    \/ SetThrown(t)
    \/ SetField(t)
    \/ SetReturn(t)
    \/ ThrowDiscard(t)
    \/ ThrowFindClass(t)
    \/ ThrowNew(t)
    \/ AccessorBody(t)

\* The steps of thread t in jniCreateFileDescriptor, and in reading a
\* descriptor back with jniGetFDFromFileDescriptor.
CreateFDStep(t) ==
    \/ \E fd \in FdArgValues : CallCreateFD(t, fd)
    \/ \E obj \in FdArgsOf(t) : CallGetFD(t, "jniGetFDFromFileDescriptor", obj)
    \/ CreateEntry(t)
    \/ CreateArgs(t)
    \/ CreateNew(t)
    \/ CreateSet(t)
    \/ SetEntry(t)
    \/ SetField(t)
    \/ SetReturn(t)
    \/ GetFDEntry(t)
    \/ GetFDGet(t)
    \/ AccessorBody(t)

(* ------------------------------------------------------------------ *)
(* jniGetNioBufferPointer                                              *)
(* ------------------------------------------------------------------ *)

\* x as a two's complement integer of the given width.
Wrap(x, bits) ==
    LET r == x % (2 ^ bits)
    IN  IF r >= 2 ^ (bits - 1) THEN r - 2 ^ bits ELSE r

IntMax == 2 ^ (IntBits - 1) - 1

\* position << shift, an int.
ShiftLeftInt(position, shift) == Wrap(position * 2 ^ shift, IntBits)

\* baseAddress += offset: the int is converted to jlong and added.
AddToLong(baseAddress, offset) == Wrap(baseAddress + offset, LongBits)

\* The values of the address field: 0 for a buffer that is not direct.
NioAddresses == {0, 100}

\* The element size shifts of java.nio buffers: bytes to longs and doubles.
NioShifts == 0 .. 3

\* The buffers native code passes: a buffer spans at most the largest int
\* of bytes, so the byte offset of its position is an int.
NioBuffers ==
    {b \in [address : NioAddresses, position : 0 .. IntMax, shift : NioShifts] :
        b.position * 2 ^ b.shift <= IntMax}

\* The frame of jniGetNioBufferPointer: the buffer, the locals, and the
\* fields of the buffer that were read.
NioFrame(buf) ==
    [fn |-> "jniGetNioBufferPointer", pc |-> "address", v |-> Null, arg |-> buf,
     res |-> 0, baseAddress |-> 0, position |-> 0, shift |-> 0, reads |-> {}]

\* A native thread calls jniGetNioBufferPointer(env, nioBuffer).
CallNioPointer(t, buf) ==
    /\ Running
    /\ t \in AppThreads
    /\ stack[t] = <<>>
    /\ stack' = [stack EXCEPT ![t] = <<NioFrame(buf)>>]
    /\ UNCHANGED <<slot, initialized, mutex, epoch, resetsDone, globalRefs,
                   batches, clinit, aborted, rt, pending, g_descriptorFieldID, heap, inv>>

\* Line 416: GetLongField of the address field.
NioAddress(t) ==
    /\ Running
    /\ At(t, {"jniGetNioBufferPointer"}, "address")
    /\ stack' = [stack EXCEPT ![t] = WithTop(t,
          [Top(t) EXCEPT !.pc = "test", !.baseAddress = Top(t).arg.address,
                         !.reads = @ \cup {"address"}])]
    /\ UNCHANGED <<slot, initialized, mutex, epoch, resetsDone, globalRefs,
                   batches, clinit, aborted, rt, pending, g_descriptorFieldID, heap, inv>>

\* NioTest that goes on to the position whatever the address is.
NioTestOmitted(t) ==
    /\ Running
    /\ At(t, {"jniGetNioBufferPointer"}, "test")
    /\ stack' = Goto(t, "position")
    /\ UNCHANGED <<slot, initialized, mutex, epoch, resetsDone, globalRefs,
                   batches, clinit, aborted, rt, pending, g_descriptorFieldID, heap, inv>>

\* Lines 417 and 422: the test of baseAddress; 0 is returned as it is.
NioTest(t) ==
    /\ Running
    /\ At(t, {"jniGetNioBufferPointer"}, "test")
    /\ stack' = IF Top(t).baseAddress # 0 THEN Goto(t, "position")
                                          ELSE HelpReturn(t, Top(t).baseAddress)
    /\ UNCHANGED <<slot, initialized, mutex, epoch, resetsDone, globalRefs,
                   batches, clinit, aborted, rt, pending, g_descriptorFieldID, heap, inv>>

\* Line 418 and lines 104-106: GetBufferPosition, a GetIntField.
NioPosition(t) ==
    /\ Running
    /\ At(t, {"jniGetNioBufferPointer"}, "position")
    /\ stack' = [stack EXCEPT ![t] = WithTop(t,
          [Top(t) EXCEPT !.pc = "shift", !.position = Top(t).arg.position,
                         !.reads = @ \cup {"position"}])]
    /\ UNCHANGED <<slot, initialized, mutex, epoch, resetsDone, globalRefs,
                   batches, clinit, aborted, rt, pending, g_descriptorFieldID, heap, inv>>

\* Line 419 and lines 112-114: GetBufferElementSizeShift, a GetIntField.
NioShift(t) ==
    /\ Running
    /\ At(t, {"jniGetNioBufferPointer"}, "shift")
    /\ stack' = [stack EXCEPT ![t] = WithTop(t,
          [Top(t) EXCEPT !.pc = "add", !.shift = Top(t).arg.shift,
                         !.reads = @ \cup {"_elementSizeShift"}])]
    /\ UNCHANGED <<slot, initialized, mutex, epoch, resetsDone, globalRefs,
                   batches, clinit, aborted, rt, pending, g_descriptorFieldID, heap, inv>>

\* Lines 420-422: baseAddress += position << shift, and the return.
NioAdd(t) ==
    /\ Running
    /\ At(t, {"jniGetNioBufferPointer"}, "add")
    /\ LET sum == AddToLong(Top(t).baseAddress,
                            ShiftLeftInt(Top(t).position, Top(t).shift))
       IN  stack' = [stack EXCEPT ![t] = WithTop(t,
              [Top(t) EXCEPT !.pc = "done", !.baseAddress = sum, !.res = sum])]
    /\ UNCHANGED <<slot, initialized, mutex, epoch, resetsDone, globalRefs,
                   batches, clinit, aborted, rt, pending, g_descriptorFieldID, heap, inv>>

\* The steps of thread t in jniGetNioBufferPointer.
NioStep(t) ==
    \/ \E buf \in NioBuffers : CallNioPointer(t, buf)
    \/ NioAddress(t)
    \/ NioTest(t)
    \/ NioPosition(t)
    \/ NioShift(t)
    \/ NioAdd(t)

(* ------------------------------------------------------------------ *)
(* Specifications                                                      *)
(* ------------------------------------------------------------------ *)

\* The steps of thread t in the accessors, its calls being to fns.
AccessorStep(t, fns) ==
    \/ \E fn \in fns : CallAccessor(t, fn)
    \/ EnsureFast(t)
    \/ EnsureLock(t)
    \/ EnsureRecheck(t)
    \/ EnsureFindClass(t)
    \/ EnsureStore(t)
    \/ EnsureUnlock(t)
    \/ ClassReturn(t)
    \/ MemberCheck(t)
    \/ MemberLookup(t)
    \/ MemberStore(t)
    \/ MemberReturn(t)
    \/ Finish(t)

\* The steps of thread t in JNI_CreateJavaVM and Uninitialize.
UninitStep(t) ==
    \/ CreateJavaVM(t)
    \/ UninitLock(t)
    \/ UninitClear(t)
    \/ UninitStoreFlag(t)
    \/ UninitUnlock(t)

\* The accessors called where runtime instances are created as well: the
\* class accessors, a field accessor and the method accessor of the other
\* class.  (GetFileDescriptorOwnerIdField and GetFileDescriptorInitMethod
\* are GetFileDescriptorDescriptorField with another slot and member; their
\* slots are cleared by Uninitialize all the same.)
LifecycleFns == ClassFns \cup {"GetFileDescriptorDescriptorField", "GetReferenceGetMethod"}

Next == \E t \in Threads : AccessorStep(t, LifecycleFns) \/ UninitStep(t)

\* Accessors and Uninitialize in any interleaving, on a sound runtime.
Spec == Init /\ [][Next]_vars

\* A runtime that initialises java.io.FileDescriptor on first use.
InitLazy ==
    /\ rt = Runtime(FALSE, FALSE, TRUE)
    /\ InitCache
    /\ InitHeap

\* The accessors whose lookup is in java.io.FileDescriptor: the one the
\* static initialisers call back, and another one.
ReentrantFns == {"GetFileDescriptorDescriptorField", "GetFileDescriptorOwnerIdField"}

NextReentrant == \E t \in Threads : AccessorStep(t, ReentrantFns) \/ UninitStep(t)

\* Field accessors and Uninitialize where the first member lookup in
\* java.io.FileDescriptor runs the class's static initialisers, which
\* re-enter the descriptor accessor.
SpecReentrant == InitLazy /\ [][NextReentrant]_vars

\* The steps of thread t inside a call it has made.
Proceed(t) ==
    \/ EnsureFast(t)
    \/ EnsureLock(t)
    \/ EnsureRecheck(t)
    \/ EnsureFindClass(t)
    \/ EnsureStore(t)
    \/ EnsureUnlock(t)
    \/ ClassReturn(t)
    \/ MemberCheck(t)
    \/ MemberLookup(t)
    \/ MemberStore(t)
    \/ MemberReturn(t)
    \/ Finish(t)
    \/ UninitLock(t)
    \/ UninitClear(t)
    \/ UninitStoreFlag(t)
    \/ UninitUnlock(t)

\* The scheduler runs every thread that can take a step.
Fairness == \A t \in Threads : WF_vars(Proceed(t))

SpecReentrantFair == SpecReentrant /\ Fairness

\* A runtime in which a class or a member may be missing.
InitMissing ==
    /\ rt = Runtime(TRUE, FALSE, FALSE)
    /\ InitCache
    /\ InitHeap

NextOneLifetime == \E t \in Threads : AccessorStep(t, AccessorFns)

\* One runtime lifetime: accessors only, no Uninitialize.
SpecOneLifetime == Init /\ [][NextOneLifetime]_vars

\* One lifetime of a runtime in which lookups may fail.
SpecMissing == InitMissing /\ [][NextOneLifetime]_vars

\* A runtime that may be unable to create a global reference.
InitOom ==
    /\ rt = Runtime(FALSE, TRUE, FALSE)
    /\ InitCache
    /\ InitHeap

\* One lifetime of a runtime in which NewGlobalRef may fail.
SpecOom == InitOom /\ [][NextOneLifetime]_vars

\* FileDescriptor objects with any value in their descriptor field.
InitGetFD ==
    /\ rt = SoundRuntime
    /\ InitCache
    /\ heap \in [Objects -> FdValues]
    /\ inv = Invocation(FALSE, kDefaultJniInvocationLibrary)

NextGetFD ==
    \E t \in Threads : GetFDStep(t) \/ AccessorStep(t, {"GetFileDescriptorClass"})

\* One runtime lifetime in which native threads read descriptors with
\* both functions and call a class accessor.
SpecGetFD == InitGetFD /\ [][NextGetFD]_vars

NextThrow == \E t \in Threads : ThrowStep(t) \/ Finish(t)

\* Native threads throwing exceptions with jniThrowException.
SpecThrow == InitOom /\ [][NextThrow]_vars

NextLog == \E t \in Threads : LogStep(t) \/ Finish(t)

\* Native threads logging exceptions with jniLogException.
SpecLog == Init /\ [][NextLog]_vars

\* Either build, with any library in the system property.
InitInvocation ==
    /\ rt = SoundRuntime
    /\ InitCache
    /\ heap = [o \in Objects |-> ClosedFd]
    /\ inv \in {Invocation(d, p) : d \in BOOLEAN, p \in LibraryNames}

NextInvocation ==
    \/ \E library \in LibraryNames \cup {NullString} : InvocationCall(library)
    \/ \E p \in LibraryNames : SetProperty(p)

\* The selection of the runtime library, on both builds.
SpecInvocation == InitInvocation /\ [][NextInvocation]_vars

\* Accessors and Uninitialize on a sound runtime, every thread scheduled.
SpecFair == Spec /\ Fairness

NextRegister == \E t \in Threads : RegisterStep(t) \/ Finish(t)

\* Native threads registering native methods.
SpecRegister == Init /\ [][NextRegister]_vars


NextSetFD == \E t \in Threads : SetFDStep(t)

\* One lifetime of a sound runtime in which native threads set the
\* descriptors of FileDescriptor objects.
SpecSetFD == Init /\ [][NextSetFD]_vars

NextCreateFD == \E t \in Threads : CreateFDStep(t)

\* One lifetime of a runtime that is short of memory, in which native
\* threads create FileDescriptor objects and read their descriptors.
SpecCreateFD == InitOom /\ [][NextCreateFD]_vars

\* No native thread is inside a call.
Quiescent == \A u \in AppThreads : stack[u] = <<>>

\* Calls of the two readers and creations of runtime instances, one after
\* the other: a runtime is created only while no native thread is inside
\* a call, and calls are made only once Uninitialize has returned.
NextGetFDResets ==
    \/ \E t \in AppThreads :
         /\ stack[MainThread] = <<>>
         /\ GetFDStep(t) \/ AccessorBody(t)
    \/ /\ Quiescent
       /\ UninitStep(MainThread) \/ Finish(MainThread)

\* The two readers of the descriptor field over several runtime lifetimes.
SpecGetFDResets == InitGetFD /\ [][NextGetFDResets]_vars

NextNio == \E t \in Threads : NioStep(t) \/ Finish(t)

\* Native threads calling jniGetNioBufferPointer with any buffer.
SpecNio == Init /\ [][NextNio]_vars

(* ------------------------------------------------------------------ *)
(* Properties                                                          *)
(* ------------------------------------------------------------------ *)

\* Thread t's call of one of fns has returned; its frame holds the result.
Done(t, fns) == At(t, fns, "done")

\* The handle the runtime yields for a member of a class resolved in
\* lifetime e.
MemberId(fn, e) == [name |-> MemberOf(fn), ep |-> e, ref |-> 0]

\* C1: in one runtime lifetime, however many threads make their first
\* accessor calls concurrently, the batch resolution of the three class
\* handles runs exactly once: no second batch ever begins, three global
\* references are created, and every class accessor call that has
\* returned holds the resolved handle that is in the slot, so that all
\* threads hold the same handle for the same class.
C1_OneBatchSameHandles ==
    /\ batches <= 1
    /\ globalRefs <= 3
    /\ \A t \in Threads :
         /\ Done(t, AccessorFns) => batches = 1 /\ globalRefs = 3 /\ initialized
         /\ Done(t, ClassFns) =>
              /\ Top(t).v # Null
              /\ Top(t).v = slot[SlotOf(Top(t).fn)]
    /\ \A t, u \in Threads :
         (Done(t, ClassFns) /\ Done(u, ClassFns) /\ Top(t).fn = Top(u).fn)
            => Top(t).v = Top(u).v

\* C1 witness: both application threads found the flag unset on the fast
\* path, one batch ran, and both hold the result of the same class accessor.
C1_Witness ==
    /\ \A t \in AppThreads : Done(t, {"GetReferenceClass"})
    /\ batches = 1

\* C5: in one runtime lifetime every call of a field or method accessor
\* returns the same handle: the call returns the id of its member in this
\* lifetime, which is what the slot holds, and a store into a slot that is
\* already resolved stores the value it holds.
C5_MemberHandlesEqual ==
    /\ [](\A t \in Threads : Done(t, MemberFns) =>
             /\ Top(t).v = MemberId(Top(t).fn, epoch)
             /\ Top(t).v = slot[SlotOf(Top(t).fn)])
    /\ [][\A m \in MemberSlots : slot[m] # Null => slot'[m] = slot[m]]_vars

\* C5 witness: both application threads saw the descriptor slot
\* unresolved, both looked the field up, one has stored and returned, the
\* other is about to store.
C5_Witness ==
    /\ Done("t1", {"GetFileDescriptorDescriptorField"})
    /\ At("t2", {"GetFileDescriptorDescriptorField"}, "store")


\* Thread t is in the slow path of EnsureClassReferencesInitialized,
\* waiting for the mutex or past it.
InSlowPath(t) ==
    /\ stack[t] # <<>>
    /\ Top(t).fn \in ClassFns
    /\ Top(t).pc \in {"lock", "recheck", "unlock"} \cup DOMAIN BatchStep \cup {"l161"}

\* Thread t is in the slow path past the lock: lines 150 to 162.
InBatch(t) == InSlowPath(t) /\ Top(t).pc # "lock"

\* Thread t is in Uninitialize past the lock: lines 174 to 182.
InClearing(t) ==
    /\ stack[t] # <<>>
    /\ Top(t).fn = "Uninitialize"
    /\ Top(t).pc \in DOMAIN ClearStep \cup {"l181", "unlock"}

\* C2: while Uninitialize runs concurrently with a first-time class
\* initialisation that is in flight, a third thread that has passed
\* EnsureClassReferencesInitialized finds its class slot populated, and a
\* class accessor call of a third thread that has returned did not return
\* nullptr.
C2_NoTornObservation ==
    \A r, i, o \in Threads :
        (r # i /\ r # o /\ i # o /\ InUninitialize(r) /\ InSlowPath(i)) =>
            /\ At(o, ClassFns, "return") => slot[SlotOf(Top(o).fn)] # Null
            /\ Done(o, ClassFns) => Top(o).v # Null

\* C3: whenever the initialised flag is true, the three class slots are
\* populated.
C3_InitializedImpliesPopulated ==
    initialized => \A c \in ClassSlots : slot[c] # Null

\* C4: an accessor call that returns after a Uninitialize call has
\* completed returns a handle resolved after that call, that is, in a
\* lifetime later than the number of completed Uninitialize calls.
C4_NoStaleHandleAfterReset ==
    [][\A t \in Threads :
          (~Done(t, AccessorFns) /\ Done(t, AccessorFns)')
             => (stack'[t][1].v # Null => stack'[t][1].v.ep > resetsDone)]_vars

\* C6: a class slot changes only in a step of the thread that holds the
\* mutex, a resolved handle is written only into an empty class slot, and
\* at most three global references are created per runtime lifetime.
C6_ClassSlotsOnceUnderMutex ==
    /\ [][\A c \in ClassSlots :
            slot'[c] # slot[c] =>
               /\ mutex \in Threads
               /\ mutex' = mutex
               /\ \A u \in Threads \ {mutex} : stack'[u] = stack[u]
               /\ slot'[c] # Null => slot[c] = Null]_vars
    /\ [](globalRefs <= 3 * (resetsDone + 1))

\* C6 witness: the class slots have been resolved again, under the mutex,
\* in the lifetime after a completed Uninitialize.
C6_Witness ==
    /\ resetsDone = 1
    /\ \A c \in ClassSlots : slot[c] # Null /\ slot[c].ep = 2
    /\ \E t \in AppThreads : At(t, ClassFns, "l161") /\ mutex = t

\* C7: when Uninitialize returns and no other call is in flight at that
\* moment, all seven slots are null and the flag is false.
C7_ResetClearsAll ==
    [][(/\ ~Done(MainThread, {"Uninitialize"})
        /\ Done(MainThread, {"Uninitialize"})'
        /\ \A t \in AppThreads : stack'[t] = <<>>)
         => /\ \A m \in Slots : slot'[m] = Null
            /\ ~initialized']_vars

\* C8: no thread is in the clearing section of Uninitialize while another
\* is in the slow path of EnsureClassReferencesInitialized past the lock,
\* and a thread in either section holds g_class_refs_mutex.
C8_ResetExcludesBatch ==
    /\ \A r, i \in Threads : ~(InClearing(r) /\ InBatch(i))
    /\ \A t \in Threads : (InClearing(t) \/ InBatch(t)) => mutex = t

\* C8 witness: Uninitialize is clearing while a first-time initialisation
\* waits for the mutex.
C8_Witness ==
    /\ InClearing(MainThread)
    /\ \E t \in AppThreads : At(t, ClassFns, "lock")


\* Thread t is in a call that the runtime made from inside a member lookup.
Reentered(t) ==
    \E k \in 1 .. Len(stack[t]) - 1 : stack[t][k].pc = "clinit"

\* C9: a thread holds g_class_refs_mutex only while its innermost frame is
\* in the slow path of EnsureClassReferencesInitialized or in Uninitialize,
\* so a thread that issues a field or method lookup does not hold it, and a
\* thread that is about to acquire the mutex does not hold it; and a call
\* that the runtime's lookup makes back into the accessors on the same
\* thread completes, with the calls around it, unless the process has died
\* on a handle of a runtime that is gone.
C9_ReentryNoDeadlock ==
    /\ [](\A t \in Threads :
            /\ mutex = t => (InBatch(t) \/ InClearing(t))
            /\ At(t, MemberFns, "find") => mutex # t
            /\ At(t, ClassFns \cup {"Uninitialize"}, "lock") => mutex # t)
    /\ \A t \in AppThreads : Reentered(t) ~> (stack[t] = <<>> \/ ~Running)

\* C9 witness: inside GetFieldID the runtime has called back into the
\* descriptor accessor, which found the flag cleared by a Uninitialize
\* and is resolving the class batch under the mutex.
C9_Witness ==
    \E t \in AppThreads : Reentered(t) /\ InBatch(t) /\ mutex = t


\* The classes of the batch from the one at line pc on.
FromLine(pc) ==
    IF pc = "l158" THEN {"l158", "l159", "l160"}
    ELSE IF pc = "l159" THEN {"l159", "l160"}
    ELSE {"l160"}

\* C10: in a runtime lifetime in which a class lookup of the batch fails,
\* the process has ended at that class with the diagnostic naming it: the
\* thread that holds the mutex stands at that line of the only batch, the
\* slot of that class and of the classes after it are empty, the flag is
\* not set, no class accessor has got past
\* EnsureClassReferencesInitialized or returned, and nothing happens any
\* more.  In no case is the flag set over an empty class slot or nullptr
\* returned by a class accessor.
C10_MissingClassIsFatal ==
    /\ [](\A pc \in DOMAIN BatchStep :
            aborted = BatchStep[pc].class =>
               /\ \E t \in Threads : mutex = t /\ At(t, ClassFns, pc)
               /\ \A l \in FromLine(pc) : slot[BatchStep[l].slot] = Null
               /\ ~initialized
               /\ batches = 1
               /\ \A t \in Threads :
                    ~At(t, ClassFns, "return") /\ ~Done(t, AccessorFns))
    /\ [](initialized => \A c \in ClassSlots : slot[c] # Null)
    /\ [](\A t \in Threads : Done(t, ClassFns) => Top(t).v # Null)
    /\ [][Running]_vars

\* C10 witness: the second class of the batch was not found; the process
\* ended after the first slot had been filled.
C10_Witness ==
    /\ aborted = "java/lang/ref/Reference"
    /\ slot["g_file_descriptor_class"] # Null

\* The members the field and method accessors look up.
Members == {MemberOf(fn) : fn \in MemberFns}

\* C11: in a runtime in which a field or method lookup fails, the process
\* ends in that lookup with the diagnostic naming the member: the step that
\* ends it changes neither a slot nor a frame, nothing happens afterwards,
\* no member slot is ever written with nullptr, and no field or method
\* accessor returns nullptr.
C11_MissingMemberIsFatal ==
    /\ [](\A t \in Threads : Done(t, MemberFns) => Top(t).v # Null)
    /\ [](\A t \in Threads : At(t, MemberFns, "store") => Top(t).v # Null)
    /\ [](aborted \in Members =>
            \E t \in Threads : At(t, MemberFns, "find") /\ MemberOf(Top(t).fn) = aborted)
    /\ [][/\ \A m \in MemberSlots : slot'[m] # slot[m] => slot'[m] # Null
          /\ (aborted' \in Members /\ aborted = "no") => (slot' = slot /\ stack' = stack)
          /\ Running]_vars

\* C11 witness: the lookup of ownerId failed and ended the process, with
\* the slot of ownerId empty, after the descriptor field had been resolved
\* and cached.
C11_Witness ==
    /\ aborted = "ownerId:J"
    /\ slot["g_file_descriptor_owner_id_field"] = Null
    /\ slot["g_file_descriptor_descriptor_field"] # Null

\* C12: in a runtime lifetime in which NewGlobalRef may fail during the
\* batch, the process does not end, the batch is not run a second time and
\* a class slot is not written again once the flag is set, and an accessor
\* call that returns nullptr returns to a caller whose thread has the
\* runtime's OutOfMemoryError pending.
C12_GlobalRefFailurePropagated ==
    /\ [](Running)
    /\ [](batches <= 1)
    /\ [](\A t \in Threads :
            (Done(t, AccessorFns) /\ Top(t).v = Null) => pending[t] = "OutOfMemoryError")
    /\ [][\A c \in ClassSlots : initialized => slot'[c] = slot[c]]_vars

C14_GetFDNullOrField ==
    /\ [](\A t \in Threads : Done(t, GetFDFns) =>
            Top(t).res = IF Top(t).arg = NullObject THEN 0 - 1 ELSE heap[Top(t).arg])
    /\ [][\A t \in Threads :
            (At(t, GetFDFns, "entry") /\ Top(t).arg = NullObject /\ stack'[t] # stack[t])
               => /\ Done(t, GetFDFns)'
                  /\ Len(stack'[t]) = 1
                  /\ UNCHANGED <<slot, initialized, mutex, globalRefs, batches, clinit,
                                 aborted, pending, g_descriptorFieldID, heap, inv>>]_vars
    /\ [](Running)

\* C14 witness: one thread got -1 for NULL from the legacy function with
\* its static still unset, and the other got 5, the descriptor of the
\* object, from the function that uses the cache.
C14_Witness ==
    /\ Done("t1", {"jniGetFDFromFileDescriptor_QR"})
    /\ Top("t1").arg = NullObject
    /\ g_descriptorFieldID = Null
    /\ Done("t2", {"jniGetFDFromFileDescriptor"})
    /\ Top("t2").arg # NullObject
    /\ Top("t2").res = 5

\* C15: the first step of jniThrowException leaves no exception pending;
\* when it has returned, the result is 0 and an exception of the requested
\* class is pending, or the result is -1 and the runtime's
\* NoClassDefFoundError (the class was not found) or OutOfMemoryError
\* (ThrowNew failed) is pending; the exception that was pending at entry
\* is not pending.
C15_ThrowReplacesPending ==
    /\ [](\A t \in Threads : Done(t, {"jniThrowException"}) =>
            /\ Top(t).res \in {0, 0 - 1}
            /\ Top(t).res = 0 =>
                 (pending[t] = Top(t).arg /\ Top(t).arg \in KnownExceptionClasses)
            /\ Top(t).res = 0 - 1 =>
                 pending[t] = IF Top(t).arg \in KnownExceptionClasses
                              THEN "OutOfMemoryError" ELSE "NoClassDefFoundError"
            /\ pending[t] # "EntryException")
    /\ [][\A t \in Threads :
            (At(t, {"jniThrowException"}, "entry") /\ stack'[t] # stack[t])
               => pending'[t] = NoException]_vars

\* C15 witness: a call made with an exception pending has returned 0 with
\* the requested exception pending, and another has returned -1 for a
\* class that does not exist.
C15_Witness ==
    /\ Done("t1", {"jniThrowException"})
    /\ Top("t1").entry = "EntryException"
    /\ Top("t1").res = 0
    /\ pending["t1"] = "java/lang/RuntimeException"
    /\ Done("t2", {"jniThrowException"})
    /\ Top("t2").res = 0 - 1
    /\ pending["t2"] = "NoClassDefFoundError"

\* C16: when jniLogException has returned, what is pending in the calling
\* thread is what was pending when it was called: the same exception, or
\* nothing.
C16_LogKeepsPending ==
    \A t \in Threads : Done(t, {"jniLogException"}) => pending[t] = Top(t).entry

\* C17: on a non-debuggable build every call of JniInvocationGetLibraryWith,
\* with a requested library or with NULL, returns "libart.so", which is not
\* NULL, whatever the requested library and the property are, and the
\* property getter is not called.
C17_NonDebuggableDefault ==
    (inv.called /\ ~inv.debuggable) =>
        /\ inv.result # NullString
        /\ inv.result = "libart.so"
        /\ ~inv.propertyRead

\* C17 witness: a library other than the default was requested on a
\* non-debuggable build whose property names yet another one.
C17_Witness ==
    /\ inv.called
    /\ ~inv.debuggable
    /\ inv.library = "libartd.so"
    /\ inv.property = "libartd2.so"
    /\ inv.result = "libart.so"

\* C18: on a debuggable build every call of JniInvocationGetLibraryWith
\* returns a library, not NULL: the requested library when one is given,
\* whatever the property, and otherwise the library the property getter
\* yields, which has then been called.
C18_DebuggableRequestedOrProperty ==
    (inv.called /\ inv.debuggable) =>
        /\ inv.result # NullString
        /\ inv.library # NullString => inv.result = inv.library
        /\ inv.library = NullString => (inv.result = inv.property /\ inv.propertyRead)

\* C18 witness: no library was requested on a debuggable build whose
\* property names a library other than the default.
C18_Witness ==
    /\ inv.called
    /\ inv.debuggable
    /\ inv.library = NullString
    /\ inv.property = "libartd2.so"
    /\ inv.result = "libartd2.so"

\* C19: the flag becomes true only in a step of the thread that holds the
\* mutex and keeps it, at line 161, when the three global references of
\* its batch exist and the three class slots are populated; the slow path
\* releases the mutex only with the flag true; and a thread that finds the
\* flag true at the re-check releases the mutex and goes to its return,
\* with no slot written, no global reference created and no batch begun.
C19_FlagAfterSlotsBeforeUnlock ==
    [][\A t \in Threads :
         /\ (~initialized /\ initialized' /\ stack'[t] # stack[t]) =>
               /\ At(t, ClassFns, "l161")
               /\ mutex = t /\ mutex' = t
               /\ globalRefs = 3 * batches
               /\ \A c \in ClassSlots : slot[c] # Null /\ slot'[c] = slot[c]
         /\ (mutex = t /\ mutex' # t /\ Top(t).fn \in ClassFns) => initialized
         /\ (At(t, ClassFns, "recheck") /\ initialized /\ stack'[t] # stack[t]) =>
               /\ mutex' = NoThread
               /\ At(t, ClassFns, "return")'
               /\ slot' = slot
               /\ globalRefs' = globalRefs
               /\ batches' = batches]_vars

\* C19 witness: a thread that waited for the mutex while another ran the
\* batch holds it now and will find the flag true at the re-check.
C19_Witness ==
    \E t, u \in AppThreads :
        /\ t # u
        /\ At(t, ClassFns, "recheck")
        /\ mutex = t
        /\ initialized
        /\ batches = 1
        /\ At(u, ClassFns, "return")

\* C20: a field or method accessor that finds its slot resolved goes to
\* its return with that value, with no call and no lookup; one that finds
\* it unresolved calls its class accessor; a class accessor gets past
\* EnsureClassReferencesInitialized only in a step in which the flag is
\* true; a lookup is begun only by the return of the class accessor; and
\* as long as no Uninitialize has begun, a lookup is made with the flag
\* true and in the populated handle of the member's class.
C20_LookupAfterEnsure ==
    /\ [][\A t \in Threads :
            /\ (At(t, MemberFns, "check") /\ stack'[t] # stack[t]) =>
                  IF slot[SlotOf(Top(t).fn)] # Null
                  THEN /\ Len(stack'[t]) = Len(stack[t])
                       /\ Top(t)' = Frame(Top(t).fn, "return", slot[SlotOf(Top(t).fn)])
                  ELSE /\ Len(stack'[t]) = Len(stack[t]) + 1
                       /\ Top(t)' = Frame(ClassFnOf(Top(t).fn), "fast", Null)
            /\ (At(t, ClassFns, "return")' /\ ~At(t, ClassFns, "return")) => initialized
            /\ (At(t, MemberFns, "find")' /\ ~At(t, MemberFns, "find")) =>
                  At(t, ClassFns, "return")]_vars
    /\ [](\A t \in Threads :
            (At(t, MemberFns, "find") /\ epoch = 1) =>
               /\ initialized
               /\ Top(t).v # Null
               /\ Top(t).v = slot[ClassSlotOf(Top(t).fn)]
               /\ Top(t).v.name = DeclaringClass(Top(t).fn))

\* C20 witness: in the first lifetime one thread is about to look get()
\* up in the resolved Reference class while the other, which found the
\* method slot resolved, is at its return.
C20_Witness ==
    /\ epoch = 1
    /\ At("t1", {"GetReferenceGetMethod"}, "find")
    /\ Len(stack["t2"]) = 1
    /\ At("t2", {"GetReferenceGetMethod"}, "return")
    /\ batches = 1

\* C21: on a runtime that resolves every symbol and under fair scheduling,
\* every call of an accessor and every call of Uninitialize returns; the
\* mutex is released only by a step of the thread that holds it; the
\* process does not end; and whenever a call is in progress some thread
\* can take a step.
C21_EveryCallReturns ==
    /\ \A t \in Threads : (stack[t] # <<>>) ~> (stack[t] = <<>>)
    /\ [][\A t \in Threads :
            (mutex = t /\ mutex' # t) => (mutex' = NoThread /\ stack'[t] # stack[t])]_vars
    /\ [](Running)
    /\ []((\E t \in Threads : stack[t] # <<>>) => \E t \in Threads : ENABLED Proceed(t))

\* C22: in both implementations, a call of jniRegisterNativeMethods that
\* has returned has returned 0, for a class that was found and a
\* RegisterNatives result of 0; and the step that tests a result other
\* than 0 ends the process.
C22_RegisterFatalOnFailure ==
    /\ [](\A t \in Threads : Done(t, {"jniRegisterNativeMethods"}) =>
            /\ Top(t).res = 0
            /\ Top(t).arg \in KnownClasses
            /\ Top(t).result = 0)
    /\ [][\A t \in Threads :
            (/\ At(t, {"jniRegisterNativeMethods"}, "test")
             /\ Top(t).result # 0
             /\ stack'[t] # stack[t]) => FALSE]_vars
    /\ [](aborted \in {"no", "Native registration unable to find class",
                       "RegisterNatives failed"})

\* The frame of the call thread t's native code made: the outermost one.
Outermost(t) == stack[t][1]

\* Thread t takes a step inside its call of one of fns.
StepsIn(t, fns) ==
    /\ stack[t] # <<>>
    /\ Outermost(t).fn \in fns
    /\ stack'[t] # stack[t]
    /\ stack'[t] # <<>>

\* C23: jniCreateFileDescriptor returns NULL, writes no descriptor field
\* and leaves the runtime's OutOfMemoryError pending when the allocation
\* fails; when it succeeds it returns the new object with its descriptor
\* field set to the given fd, and jniGetFDFromFileDescriptor on that
\* object returns the fd: the field of a thread's object is written by
\* that thread's jniCreateFileDescriptor only, with its fd.
C23_CreateFileDescriptor ==
    /\ [](\A t \in Threads : Done(t, {"jniCreateFileDescriptor"}) =>
            IF Top(t).obj = NullObject
            THEN pending[t] = "OutOfMemoryError"
            ELSE /\ Top(t).obj \in DOMAIN heap
                 /\ heap[Top(t).obj] = Top(t).value)
    /\ [][\A t \in Threads :
            (/\ StepsIn(t, {"jniCreateFileDescriptor"})
             /\ Outermost(t)'.obj = NullObject) => heap' = heap]_vars
    /\ [][\A t \in Threads :
            (NewObjectOf(t) \in DOMAIN heap /\ heap'[NewObjectOf(t)] # heap[NewObjectOf(t)])
               => /\ StepsIn(t, {"jniCreateFileDescriptor"})
                  /\ heap'[NewObjectOf(t)] \in {ClosedFd, Outermost(t).value}]_vars
    /\ [](\A t \in Threads :
            (Done(t, {"jniGetFDFromFileDescriptor"}) /\ Top(t).arg = NewObjectOf(t))
               => Top(t).res = heap[Top(t).arg])

\* C23 witness: one thread's call has returned NULL with OutOfMemoryError
\* pending and has left no object behind, while the other thread has read
\* 5 back from the object it created with fd 5.
C23_Witness ==
    /\ Done("t1", {"jniCreateFileDescriptor"})
    /\ Top("t1").obj = NullObject
    /\ pending["t1"] = "OutOfMemoryError"
    /\ NewObjectOf("t1") \notin DOMAIN heap
    /\ Done("t2", {"jniGetFDFromFileDescriptor"})
    /\ Top("t2").arg = NewObjectOf("t2")
    /\ Top("t2").res = 5

\* C24: jniSetFileDescriptorOfFD with a NULL FileDescriptor leaves
\* java.lang.NullPointerException pending, and no step of the call writes
\* a descriptor field or touches the handle cache; with an object it
\* writes the given value to the object's descriptor field and returns
\* with no exception pending.
C24_SetFileDescriptorOfFD ==
    /\ [](\A t \in Threads : Done(t, {"jniSetFileDescriptorOfFD"}) =>
            pending[t] = IF Top(t).arg = NullObject
                         THEN "java/lang/NullPointerException" ELSE NoException)
    /\ [][\A t \in Threads :
            (StepsIn(t, {"jniSetFileDescriptorOfFD"}) /\ Outermost(t).arg = NullObject)
               => UNCHANGED <<heap, slot, initialized, mutex, globalRefs, batches>>]_vars
    /\ [][\A t \in Threads :
            (At(t, {"jniSetFileDescriptorOfFD"}, "setfield") /\ stack'[t] # stack[t])
               => heap' = [heap EXCEPT ![Top(t).arg] = Top(t).value]]_vars
    /\ [][\A t \in Threads :
            (heap' # heap /\ stack'[t] # stack[t])
               => At(t, {"jniSetFileDescriptorOfFD"}, "setfield")]_vars

\* C24 witness: a call with NULL has returned with NullPointerException
\* pending, and a call with an object and 5 has returned with nothing
\* pending and the object's descriptor 5.
C24_Witness ==
    /\ Done("t1", {"jniSetFileDescriptorOfFD"})
    /\ Top("t1").arg = NullObject
    /\ pending["t1"] = "java/lang/NullPointerException"
    /\ Done("t2", {"jniSetFileDescriptorOfFD"})
    /\ Top("t2").arg = "fdA"
    /\ Top("t2").value = 5
    /\ pending["t2"] = NoException
    /\ heap["fdA"] = 5

\* The field id a reader of the descriptor field passes to GetIntField.
FieldIdUsed(t) ==
    IF Top(t).fn = "jniGetFDFromFileDescriptor_QR" THEN g_descriptorFieldID
                                                   ELSE Top(t).v

\* C25: over any sequence of calls and new runtime lifetimes,
\* jniGetFDFromFileDescriptor_QR and jniGetFDFromFileDescriptor return the
\* same value for the same argument, -1 for NULL and the descriptor field
\* of an object, and the field id either passes to GetIntField was
\* resolved in the current lifetime; the process does not end.
C25_QREquivalent ==
    /\ Running
    /\ \A t \in Threads :
         /\ Done(t, GetFDFns) =>
               Top(t).res = IF Top(t).arg = NullObject THEN 0 - 1 ELSE heap[Top(t).arg]
         /\ At(t, GetFDFns, "get") => FieldIdUsed(t).ep = epoch

\* C26: in any interleaving of accessor calls with Uninitialize, on a
\* runtime that resolves every symbol and creates every global reference,
\* a class, field or method accessor call that has returned did not return
\* nullptr.
C26_ReturnedHandleResolved ==
    \A t \in AppThreads : Done(t, AccessorFns) => Top(t).v # Null

\* The global references the batch a thread is running has created.
BatchProgress(pc) ==
    CASE pc = "l158" -> 0
      [] pc = "l159" -> 1
      [] pc = "l160" -> 2

\* C27: the number of global references the cache has created never
\* decreases, and no step of Uninitialize changes it; it is three for every
\* batch resolution that has run to its end, plus what the batch that is
\* running has created; and at most one batch is run before the first
\* Uninitialize and after each Uninitialize, three references per lifetime
\* of the cache.
C27_ResetReleasesNothing ==
    /\ [][globalRefs' >= globalRefs]_vars
    /\ [][(InUninitialize(MainThread) /\ stack'[MainThread] # stack[MainThread])
            => globalRefs' = globalRefs]_vars
    /\ []((\A t \in Threads : ~(stack[t] # <<>> /\ Top(t).pc \in DOMAIN BatchStep))
            => globalRefs = 3 * batches)
    /\ [](\A t \in Threads : (stack[t] # <<>> /\ Top(t).pc \in DOMAIN BatchStep)
            => globalRefs = 3 * (batches - 1) + BatchProgress(Top(t).pc))
    /\ [](batches <= resetsDone + 1)

\* C27 witness: Uninitialize has returned, the batch has run in both
\* lifetimes and six global references exist, none released.
C27_Witness ==
    /\ resetsDone = 1
    /\ batches = 2
    /\ globalRefs = 6
    /\ \A t \in Threads : stack[t] = <<>>

\* C28: jniGetNioBufferPointer returns 0, having read the address field
\* only, when the address is 0; otherwise it has read position and element
\* size shift and returns the address plus position times two to the
\* shift, the offset having been computed as an int.
C28_NioBufferPointer ==
    \A t \in Threads : Done(t, {"jniGetNioBufferPointer"}) =>
        LET buf == Top(t).arg IN
        IF buf.address = 0
        THEN /\ Top(t).res = 0
             /\ Top(t).reads = {"address"}
        ELSE /\ Top(t).res = buf.address + buf.position * 2 ^ buf.shift
             /\ Top(t).res - buf.address \in 0 .. IntMax
             /\ Top(t).reads = {"address", "position", "_elementSizeShift"}

\* C28 witness: a call for a buffer at address 0 with position 3 has
\* returned 0, and a call for a buffer at 100 with position 3 and shift 2
\* has returned 112.
C28_Witness ==
    /\ Done("t1", {"jniGetNioBufferPointer"})
    /\ Top("t1").arg = [address |-> 0, position |-> 3, shift |-> 2]
    /\ Top("t1").res = 0
    /\ Done("t2", {"jniGetNioBufferPointer"})
    /\ Top("t2").arg = [address |-> 100, position |-> 3, shift |-> 2]
    /\ Top("t2").res = 112

====
